---- MODULE Spec2Model ----
(***************************************************************************)
(* Model of sengine-workers: the credit ledger (services/credits.service), *)
(* the inbox.send dispatcher (workers/outboundMessageWorker behind         *)
(* config/rabbitmq consume) and the drip pipeline (workers/preQueueWorker, *)
(* services/drip/scheduledMessage.service, workers/messageConsumer).       *)
(*                                                                         *)
(* Every await of the code is one step of the handler that executes it, so *)
(* that handlers of one process (prefetch) or of several processes         *)
(* interleave at the database, broker and gateway calls. The database is   *)
(* PostgreSQL at READ COMMITTED: a plain SELECT reads committed rows and   *)
(* takes no lock, an UPDATE holds the row until its transaction ends.      *)
(* Statements succeed unless an action says otherwise; the failures that   *)
(* are modelled are the ones named at each action.                         *)
(***************************************************************************)
EXTENDS Integers, Sequences, FiniteSets, TLC

NULL == "null"

\* ---------------------------------------------------------------- bounds
NumProcs == 2
MaxBalance == 2
MaxAmount == 2
MaxCalls == 3
NumInbox == 2
MaxRequeues == 2
NumScheduled == 2
MaxCycles == 2
MaxStarts == 2
MaxTokens == 2
TokenScale == 2
MaxTime == 6
MaxAcquires == 5
MaxDeliveries == 4
NumBrokerMsgs == 2
MaxConnects == 12
MaxRedeliveries == 1
MaxDrops == 3
MaxLinks == 3
NumWebhooks == 2
NumJobs == 2
MaxEvents == 1

\* consume(): retryCount >= 3
MAX_RETRY_COUNT == 3
BATCH_SIZE == 1

Procs == 1..NumProcs
Users == {"u1", "u2"}

VARIABLES
    user_credits,        \* user_id -> [exists, balance, total_spent]
    credit_transactions, \* the audit rows, in insertion (commit) order
    trx,                 \* per caller: the deductCredits call in progress
    initial_balance,     \* user_id -> the balance at the start (never written)
    ncalls               \* deductCredits calls made by direct callers

creditVars == <<user_credits, credit_transactions, trx, initial_balance, ncalls>>

VARIABLES
    messages,       \* the messages table: row id -> row (ids are 1..Len)
    send_queue,     \* inbox.send.message: the payloads ready for delivery
    ow,             \* per handler slot: the handleSendMessage call in progress
    send_acks,      \* message id -> broker messages acked (ch.ack) for it
    twilio_calls,   \* message id -> sendSMS calls made for it (mock counter)
    twilio_sids,    \* SIDs the gateway has issued so far
    requeues        \* unacked messages the broker has put back in a queue

inboxVars == <<messages, send_queue, ow, send_acks, twilio_calls>>
gatewayVars == <<twilio_sids, requeues>>

VARIABLES
    scheduled_messages, \* the scheduled_messages table: id -> row
    drip_contact,       \* the drip_contact table: id -> row
    contacts,           \* the contacts table: id -> row
    users,              \* the users table: id -> row
    drip_queue,         \* drip.messages.queue: the payloads ready for delivery
    pq,                 \* preQueueWorker: isRunning and the cycle in progress
    mc,                 \* per handler slot: the processMessage call in progress
    published,          \* scheduled message id -> payloads published for it
    drip_calls,         \* scheduled message id -> sendSMS calls made for it
    cycles,             \* pre-queue cycles started
    drip_settled        \* drip.messages.queue: deliveries made, acked, rejected,
                        \* and messages expired to the dead-letter queue

dripVars == <<scheduled_messages, drip_contact, contacts, users, drip_queue,
              pq, mc, published, drip_calls, cycles, drip_settled>>

VARIABLES
    rate_limiter,   \* the RateLimiter instance: [tokens, lastRefill]
    now,            \* Date.now(), in clock steps
    rl_wait,        \* per acquire() caller: when its setTimeout is due (0: none)
    acquired        \* the times at which acquire() calls completed, in order

limiterVars == <<rate_limiter, now, rl_wait, acquired>>

\* The state of the components that the ledger, the inbox.send handler and
\* the drip pipeline do not touch.
VARIABLES
    broker          \* queue name -> the broker message at its head

VARIABLES
    connection,         \* config/rabbitmq: "closed", "open" or "broken"
    reconnectAttempts,  \* config/rabbitmq: let reconnectAttempts
    reconnect_timers,   \* the delays (ms) of the pending setTimeout callbacks
    failed_connects,    \* connect() calls that failed since the last success
    drops               \* 'error' and 'close' events emitted so far

connVars == <<connection, reconnectAttempts, reconnect_timers, failed_connects,
              drops>>

VARIABLES
    status_queue,   \* inbox.status.update: the callbacks ready for delivery
    sw              \* per handler slot: the handleStatusUpdate call in progress

statusVars == <<status_queue, sw>>

VARIABLES
    webhooks,           \* the webhooks table: id -> row
    webhook_deliveries, \* the webhook_deliveries table, in insertion order
    webhook_queue,      \* the queue webhookWorker consumes: the jobs ready
    wd,                 \* per handler slot: the handleWebhookMessage call
    streak,             \* webhook id -> failed attempts since the last success
    overlapped,         \* two attempts have been in progress at the same time
    wp,                 \* the queueWebhookEvent call in progress
    unroutable          \* jobs published that the exchange routed to no queue

webhookVars == <<webhooks, webhook_deliveries, webhook_queue, wd, streak,
                 overlapped, wp, unroutable>>

VARIABLES
    inbound_queue,      \* inbox.inbound.message: the messages ready, head first
    iw,                 \* per handler slot: the handleInboundMessage call
    contacts_optout,    \* the contacts_optout table: <<user_id, phone>> rows
    inbound_log         \* the consumer callbacks that ended, in order

inboundVars == <<inbound_queue, iw, contacts_optout, inbound_log>>

VARIABLES
    consumerTag,    \* messageConsumer: the tag of its consumer, or NULL
    sd              \* app.js: the position of shutdown(), "running" before

shutdownVars == <<consumerTag, sd>>

VARIABLES
    fp              \* twilio.service: a phone number and what formatPhoneNumber
                    \* made of it, applied once and again

formatVars == <<fp>>

VARIABLES
    peer            \* the preQueueWorker of a second instance of the app

fleetVars == <<peer>>

VARIABLES
    links,          \* the connections connect() has opened, by number: "none",
                    \* "open", "broken" (after 'error') or "closed"
    current,        \* config/rabbitmq: the link that its connection and channel
                    \* refer to, 0 for null
    consumers,      \* queue -> the link on whose channel it is consumed
    lh,             \* the consumer callback in flight and the channel it holds
    link_acks       \* the acks that a channel has accepted

linkVars == <<links, current, consumers, lh, link_acks>>

VARIABLES
    created         \* the contacts rows findOrCreateContact has inserted

createVars == <<created>>

\* The state of the workers beside the pipelines.
svcVars == <<connVars, statusVars, webhookVars, inboundVars, shutdownVars,
            formatVars, fleetVars, linkVars, createVars>>

extVars == <<limiterVars, broker, svcVars>>

\* Everything but svcVars.
pipelineVars == <<creditVars, inboxVars, gatewayVars, dripVars, limiterVars,
                  broker>>

\* What the steps of each of these workers leave alone.
exceptLink == <<pipelineVars, statusVars, webhookVars, inboundVars,
                shutdownVars, formatVars, fleetVars, createVars>>
exceptConn == <<exceptLink, linkVars>>
exceptStatus == <<creditVars, send_queue, ow, send_acks, twilio_calls,
                  gatewayVars, dripVars, limiterVars, broker, connVars,
                  webhookVars, inboundVars, shutdownVars, formatVars,
                  fleetVars, linkVars, createVars>>
exceptWebhook == <<pipelineVars, connVars, statusVars, inboundVars,
                  shutdownVars, formatVars, fleetVars, linkVars, createVars>>
exceptCreate == <<creditVars, send_queue, ow, send_acks, twilio_calls,
                  gatewayVars, scheduled_messages, drip_contact, users,
                  drip_queue, pq, mc, published, drip_calls, cycles,
                  drip_settled, limiterVars, broker, connVars, statusVars,
                  webhookVars, shutdownVars, formatVars, fleetVars, linkVars>>
exceptInbound == <<exceptCreate, createVars>>
exceptFormat == <<pipelineVars, connVars, statusVars, webhookVars,
                 inboundVars, shutdownVars, fleetVars, linkVars, createVars>>
exceptFleet == <<creditVars, inboxVars, gatewayVars, drip_contact, contacts,
                users, pq, mc, drip_calls, cycles, drip_settled, limiterVars,
                broker, connVars, statusVars, webhookVars, inboundVars,
                shutdownVars, formatVars, linkVars, createVars>>

coreVars == <<creditVars, inboxVars, gatewayVars, dripVars>>

otherThanCredits == <<inboxVars, gatewayVars, dripVars, extVars>>

vars == <<creditVars, inboxVars, gatewayVars, dripVars, extVars>>

\* ------------------------------------------------- credits.service: state

\* A user without a user_credits row: first() returns undefined.
NoRow == [exists |-> FALSE, balance |-> 0, total_spent |-> 0]

NoTrx == [pc |-> "none", userId |-> NULL, amount |-> 0, newBalance |-> 0,
          newTotalSpent |-> 0, referenceType |-> NULL, referenceId |-> NULL,
          error |-> NULL, row |-> 0]

\* User u1 has a user_credits row with balance b, user u2 has none.
InitCredits(b) ==
    /\ user_credits = [u \in Users |->
          IF u = "u1" THEN [exists |-> TRUE, balance |-> b, total_spent |-> 0]
          ELSE NoRow]
    /\ credit_transactions = <<>>
    /\ trx = [p \in Procs |-> NoTrx]
    /\ initial_balance = [u \in Users |-> user_credits[u].balance]
    /\ ncalls = 0

\* The row lock of user_credits[u]: held by the transaction whose UPDATE ran
\* and which has neither committed nor rolled back.
LockHolders(u) ==
    {p \in Procs : trx[p].userId = u /\ trx[p].pc \in {"insert", "commit"}}

\* hasEnoughCredits: a plain read outside any transaction.
hasEnoughCredits(userId, amount) ==
    IF userId = NULL THEN FALSE
    ELSE IF ~user_credits[userId].exists THEN FALSE
    ELSE user_credits[userId].balance >= amount

\* The check of deductCredits on the row it read.
InsufficientCredits(credits, amount) == credits.balance < amount

\* The tables as the transaction of p has written them: its UPDATE ran once
\* it holds the row lock.
Committed(p) ==
    [user_credits EXCEPT ![trx[p].userId] =
        [exists |-> TRUE, balance |-> trx[p].newBalance,
         total_spent |-> trx[p].newTotalSpent]]

\* A catch block that does not undo the UPDATE (the statement run on dbWriter
\* instead of trx, or the rollback left out).
RolledBackKeepsUpdate(p) ==
    IF trx[p].pc \in {"insert", "commit"} THEN Committed(p) ELSE user_credits

\* trx.rollback(): nothing the transaction wrote reaches the tables.
RolledBack(p) == user_credits

DebitRow(p) ==
    [user_id |-> trx[p].userId, type |-> "debit", amount |-> 0 - trx[p].amount,
     balance_after |-> trx[p].newBalance,
     reference_type |-> trx[p].referenceType,
     reference_id |-> trx[p].referenceId]

\* deductCredits entry: argument checks, then dbWriter.transaction().
DeductBegin(p, userId, amount, refType, refId) ==
    IF userId = NULL
    THEN [NoTrx EXCEPT !.pc = "err", !.error = "User ID is required"]
    ELSE IF amount <= 0
    THEN [NoTrx EXCEPT !.pc = "err", !.userId = userId,
                       !.error = "Valid credit amount is required"]
    ELSE [NoTrx EXCEPT !.pc = "select", !.userId = userId, !.amount = amount,
                       !.referenceType = refType, !.referenceId = refId]

\* ----------------------------------------------- credits.service: actions

\* A direct caller calls deductCredits(userId, amount).
CallDeduct(p) ==
    /\ trx[p].pc = "none"
    /\ ncalls < MaxCalls
    /\ \E userId \in Users \cup {NULL}, amount \in 0..MaxAmount :
          trx' = [trx EXCEPT ![p] = DeductBegin(p, userId, amount, NULL, NULL)]
    /\ ncalls' = ncalls + 1
    /\ UNCHANGED <<user_credits, credit_transactions, initial_balance>>
    /\ UNCHANGED otherThanCredits

\* trx('user_credits').where({user_id}).first() and the two checks on it.
DeductSelect(p) ==
    /\ trx[p].pc = "select"
    /\ LET credits == user_credits[trx[p].userId] IN
       trx' = [trx EXCEPT ![p] =
          IF ~credits.exists
          THEN [@ EXCEPT !.pc = "err", !.error = "User credits not found"]
          ELSE IF InsufficientCredits(credits, trx[p].amount)
          THEN [@ EXCEPT !.pc = "err", !.error = "Insufficient credits"]
          ELSE [@ EXCEPT !.pc = "update",
                         !.newBalance = credits.balance - trx[p].amount,
                         !.newTotalSpent = credits.total_spent + trx[p].amount]]
    /\ user_credits' = RolledBack(p)
    /\ UNCHANGED <<credit_transactions, initial_balance, ncalls>>
    /\ UNCHANGED otherThanCredits

\* trx('user_credits').update({balance, total_spent}): waits for the row lock.
DeductUpdate(p) ==
    /\ trx[p].pc = "update"
    /\ LockHolders(trx[p].userId) = {}
    /\ trx' = [trx EXCEPT ![p].pc = "insert"]
    /\ UNCHANGED <<user_credits, credit_transactions, initial_balance, ncalls>>
    /\ UNCHANGED otherThanCredits

\* trx('credit_transactions').insert(...).returning('*')
DeductInsert(p) ==
    /\ trx[p].pc = "insert"
    /\ trx' = [trx EXCEPT ![p].pc = "commit"]
    /\ UNCHANGED <<user_credits, credit_transactions, initial_balance, ncalls>>
    /\ UNCHANGED otherThanCredits

\* trx.commit(), and the return of {credits, transaction}.
DeductCommit(p) ==
    /\ trx[p].pc = "commit"
    /\ user_credits' = Committed(p)   \* trx.commit() makes the UPDATE visible
    /\ credit_transactions' = Append(credit_transactions, DebitRow(p))
    /\ trx' = [trx EXCEPT ![p].pc = "ok",
                          ![p].row = Len(credit_transactions) + 1]
    /\ UNCHANGED <<initial_balance, ncalls>>
    /\ UNCHANGED otherThanCredits

\* A statement of the transaction (the update, the insert or the commit)
\* fails: the catch block rolls back and rethrows.
DeductDbError(p) ==
    /\ trx[p].pc \in {"update", "insert", "commit"}
    /\ user_credits' = RolledBack(p)
    /\ trx' = [trx EXCEPT ![p].pc = "err",
                          ![p].error = IF trx[p].pc = "update" THEN "update failed"
                                       ELSE IF trx[p].pc = "insert" THEN "insert failed"
                                       ELSE "commit failed"]
    /\ UNCHANGED <<credit_transactions, initial_balance, ncalls>>
    /\ UNCHANGED otherThanCredits

\* The direct caller takes the result (or the error).
DeductReturn(p) ==
    /\ trx[p].pc \in {"ok", "err"}
    /\ trx' = [trx EXCEPT ![p] = NoTrx]
    /\ UNCHANGED <<user_credits, credit_transactions, initial_balance, ncalls>>
    /\ UNCHANGED otherThanCredits

DeductStep(p) ==
    \/ DeductSelect(p)
    \/ DeductUpdate(p)
    \/ DeductInsert(p)
    \/ DeductCommit(p)
    \/ DeductDbError(p)

\* --------------------------------------- outboundMessageWorker: inbox.send

InboxIds == 1..NumInbox

\* msg_id (the provider message id) is a positive SID, or NoSid for SQL NULL.
NoSid == 0

\* A messages row the API queued for sending: not sent yet.
QueuedRow == [msg_id |-> NoSid, status |-> "0", delivery_status |-> "queued",
              is_charged |-> 0, is_drip |-> 0]

\* The payload of inbox.send for messages row m (creditCost was charged by
\* the API when it queued the message).
SendPayload(m) == [messageId |-> m, userId |-> "u1", creditCost |-> 1,
                   isLoadTest |-> FALSE]

NoResult == [success |-> FALSE, sid |-> NoSid]

IdleHandler == [pc |-> "idle", data |-> SendPayload(1), duplicate |-> FALSE,
                twilioResult |-> NoResult, success |-> FALSE, attached |-> FALSE]

InitInbox ==
    /\ messages = [m \in InboxIds |-> QueuedRow]
    /\ send_queue = [i \in InboxIds |-> SendPayload(i)]
    /\ ow = [p \in Procs |-> IdleHandler]
    /\ send_acks = [m \in InboxIds |-> 0]
    /\ twilio_calls = [m \in InboxIds |-> 0]
    /\ twilio_sids = 0
    /\ requeues = 0

\* A handler with no duplicate check at all.
NeverAlreadySent(existingMessage) == FALSE

\* The duplicate check: existingMessage?.msg_id
AlreadySent(existingMessage) == existingMessage.msg_id # NoSid

\* The row update after the gateway call.
UpdateData(row, twilioResult) ==
    [row EXCEPT !.msg_id = twilioResult.sid,
                !.status = IF twilioResult.success THEN "1" ELSE "3",
                !.delivery_status =
                    IF twilioResult.success THEN "queued" ELSE "failed",
                !.is_charged = IF twilioResult.success THEN 1 ELSE 0]

\* twilioService.sendSMS: never throws; a SID on success, sid null on failure.
SendSMS(ok) ==
    IF ok THEN [success |-> TRUE, sid |-> twilio_sids + 1] ELSE NoResult

\* consume() delivers the head of the queue to a free handler, which goes
\* to sleep if the payload is a load test and otherwise reads the messages
\* row and runs the duplicate check.
SendDeliver(p) ==
    /\ ow[p].pc = "idle"
    /\ send_queue # <<>>
    /\ LET data == Head(send_queue)
           dup == ~data.isLoadTest /\ AlreadySent(messages[data.messageId]) IN
       ow' = [ow EXCEPT ![p] =
                 [pc |-> IF data.isLoadTest THEN "loadTest"
                         ELSE IF dup THEN "ack" ELSE "send", data |-> data,
                  duplicate |-> dup, twilioResult |-> NoResult,
                  success |-> dup, attached |-> TRUE]]
    /\ send_queue' = Tail(send_queue)
    /\ UNCHANGED <<messages, send_acks, twilio_calls, gatewayVars, creditVars,
                   dripVars>>
    /\ UNCHANGED extVars

\* if (data.isLoadTest): the sleep of 50 to 200 ms is over; the handler
\* returns {success: true, loadTest: true}.
SendLoadTest(p) ==
    /\ ow[p].pc = "loadTest"
    /\ ow' = [ow EXCEPT ![p].pc = "ack", ![p].success = TRUE]
    /\ UNCHANGED <<messages, send_queue, send_acks, twilio_calls, gatewayVars,
                   creditVars, dripVars>>
    /\ UNCHANGED extVars

\* rateLimiter.acquire(), then twilioService.sendSMS(...).
SendTwilio(p) ==
    /\ ow[p].pc = "send"
    /\ \E ok \in BOOLEAN :
          /\ ow' = [ow EXCEPT ![p].pc = "update", ![p].twilioResult = SendSMS(ok)]
          /\ twilio_sids' = IF ok THEN twilio_sids + 1 ELSE twilio_sids
    /\ twilio_calls' = [twilio_calls EXCEPT ![ow[p].data.messageId] = @ + 1]
    /\ UNCHANGED <<messages, send_queue, send_acks, requeues, creditVars,
                   dripVars>>
    /\ UNCHANGED extVars

\* dbWriter('messages').where({id}).update(updateData)
SendUpdate(p) ==
    /\ ow[p].pc = "update"
    /\ messages' = [messages EXCEPT ![ow[p].data.messageId] =
                        UpdateData(@, ow[p].twilioResult)]
    /\ ow' = [ow EXCEPT ![p].pc =
                 IF ow[p].twilioResult.success THEN "contact" ELSE "refund"]
    /\ UNCHANGED <<send_queue, send_acks, twilio_calls, gatewayVars, creditVars,
                   dripVars>>
    /\ UNCHANGED extVars

\* Success: the contacts update (last_message, open_chat); the webhook event
\* is queued without being awaited. The handler returns {success: true}.
SendContact(p) ==
    /\ ow[p].pc = "contact"
    /\ ow' = [ow EXCEPT ![p].pc = "ack", ![p].success = TRUE]
    /\ UNCHANGED <<messages, send_queue, send_acks, twilio_calls, gatewayVars,
                   creditVars, dripVars>>
    /\ UNCHANGED extVars

\* Failure: refundCredits(userId, creditCost, ...) requires
\* '../services/credits' and calls its refundCredits; the credits service of
\* this repository is services/credits.service and exports no refundCredits,
\* so the call is caught and logged and no row changes. The handler returns
\* {success: false}.
SendRefund(p) ==
    /\ ow[p].pc = "refund"
    /\ ow' = [ow EXCEPT ![p].pc = "ack", ![p].success = FALSE]
    /\ UNCHANGED <<messages, send_queue, send_acks, twilio_calls, gatewayVars,
                   creditVars, dripVars>>
    /\ UNCHANGED extVars

\* The handler returned: consume() acks the message (ch.ack). On a channel
\* the broker has dropped the ack settles nothing.
SendAck(p) ==
    /\ ow[p].pc = "ack"
    /\ send_acks' = IF ow[p].attached
                    THEN [send_acks EXCEPT ![ow[p].data.messageId] = @ + 1]
                    ELSE send_acks
    /\ ow' = [ow EXCEPT ![p] = IdleHandler]
    /\ UNCHANGED <<messages, send_queue, twilio_calls, gatewayVars, creditVars,
                   dripVars>>
    /\ UNCHANGED extVars

\* The broker puts an unacked message back (noAck: false): the consumer's
\* process died (dies), or its connection dropped while the handler runs on.
SendRequeue(p) ==
    /\ ow[p].pc # "idle"
    /\ ow[p].attached
    /\ requeues < MaxRequeues
    /\ requeues' = requeues + 1
    /\ send_queue' = <<ow[p].data>> \o send_queue
    /\ \E dies \in BOOLEAN :
          ow' = [ow EXCEPT ![p] =
                    IF dies THEN IdleHandler ELSE [@ EXCEPT !.attached = FALSE]]
    /\ UNCHANGED <<messages, send_acks, twilio_calls, twilio_sids, creditVars,
                   dripVars>>
    /\ UNCHANGED extVars

\* ------------------------------------- scheduledMessage.service: the table

PENDING == 0
QUEUED == 1
SENDING == 2
SENT == 3
DELIVERED == 4
FAILED == 5
CANCELLED == 6

ScheduledIds == 1..NumScheduled

\* The columns of a scheduled message that never change: both rows belong to
\* user u1 and contact 1; each row has its own drip_contact row and drip id.
ScheduledUser(s) == "u1"
ScheduledContact(s) == 1
ScheduledDripContact(s) == s
ScheduledDrip(s) == s

\* config: HIGH_SCALE_DRIP.PRE_QUEUE_MINUTES, the lead window in minutes.
PRE_QUEUE_MINUTES == 15

\* A row as the API enrolled it, due now; scheduled_at is in minutes on the
\* clock of `now`.
PendingRow == [status |-> PENDING, scheduled_at |-> 0, queued_at |-> FALSE,
               sent_at |-> FALSE, message_id |-> 0, msg_id |-> NoSid,
               error_message |-> NULL, retry_count |-> 0]

\* The rows of a drip as enrolled: one step a minute, from a minute from now.
EnrolledRow(s) == [PendingRow EXCEPT !.scheduled_at = s]

\* where(status, PENDING).where(scheduled_at, '<=', futureTime)
Eligible(futureTime) ==
    {i \in ScheduledIds : /\ scheduled_messages[i].status = PENDING
                          /\ scheduled_messages[i].scheduled_at <= futureTime}

\* orderBy(scheduled_at, 'asc'): the rows in an order in which scheduled_at
\* never falls; rows with equal scheduled_at come in any order.
OrderByScheduledAt(rows) ==
    {f \in [1..Cardinality(rows) -> rows] :
        /\ \A j, k \in DOMAIN f : j < k =>
              /\ f[j] # f[k]
              /\ scheduled_messages[f[j]].scheduled_at
                    <= scheduled_messages[f[k]].scheduled_at}

\* A select without the orderBy: the rows in any order.
getMessagesReadyForQueueUnordered(minutes, limit) ==
    {SubSeq(f, 1, IF Len(f) < limit THEN Len(f) ELSE limit) :
        f \in {g \in [1..Cardinality(Eligible(now + minutes))
                        -> Eligible(now + minutes)] :
                  \A j, k \in DOMAIN g : j < k => g[j] # g[k]}}

\* getMessagesReadyForQueue(minutes, limit): futureTime = now + minutes; the
\* results the select may return, each the first `limit` rows of an ordering.
getMessagesReadyForQueue(minutes, limit) ==
    {SubSeq(f, 1, IF Len(f) < limit THEN Len(f) ELSE limit) :
        f \in OrderByScheduledAt(Eligible(now + minutes))}

\* A batch update without the where(status, PENDING).
markMessagesAsQueuedUngated(messageIds) ==
    [i \in ScheduledIds |->
        IF i \in messageIds
        THEN [scheduled_messages[i] EXCEPT !.status = QUEUED, !.queued_at = TRUE]
        ELSE scheduled_messages[i]]

\* markMessagesAsQueued: whereIn(id, messageIds).where(status, PENDING).update
markMessagesAsQueued(messageIds) ==
    [i \in ScheduledIds |->
        IF i \in messageIds /\ scheduled_messages[i].status = PENDING
        THEN [scheduled_messages[i] EXCEPT !.status = QUEUED, !.queued_at = TRUE]
        ELSE scheduled_messages[i]]

\* markMessageAsSent: where(id).update({status: SENT, sent_at, message_id,
\* msg_id}); an undefined messageId (0) is no column of the update and leaves
\* message_id as it was.
markMessageAsSent(row, messageId, msgId) ==
    [row EXCEPT !.status = SENT, !.sent_at = TRUE,
                !.message_id = IF messageId = 0 THEN @ ELSE messageId,
                !.msg_id = msgId]

\* A markMessageAsFailed that puts the row back for another try.
markMessageAsFailedForRetry(row, errorMessage) ==
    [row EXCEPT !.status = PENDING, !.error_message = errorMessage,
                !.retry_count = @ + 1]

\* markMessageAsFailed: where(id).update({status: FAILED, error_message,
\* retry_count: retry_count + 1})
markMessageAsFailed(row, errorMessage) ==
    [row EXCEPT !.status = FAILED, !.error_message = errorMessage,
                !.retry_count = @ + 1]

\* ------------------------------------------------------- preQueueWorker

DripPayload(s) ==
    [content |-> "json", scheduledMessageId |-> s, dripContactId |-> ScheduledDripContact(s),
     userId |-> ScheduledUser(s), contactId |-> ScheduledContact(s),
     dripId |-> ScheduledDrip(s), isLoadTest |-> FALSE]

\* The invocations of runWorkerCycle of one run, in the order they are made.
CycleIds == 1..MaxCycles

IdleCycle == [pc |-> "idle", messages |-> <<>>, queuedIds |-> <<>>,
              fromStart |-> FALSE]

\* The module state of preQueueWorker before start(): isRunning = false,
\* intervalId = null (0), no timer set, BATCH_SIZE as configured.
StoppedWorker(batchSize) ==
    [isRunning |-> FALSE, intervalId |-> 0, timers |-> {}, intervals |-> 0,
     batchSize |-> batchSize, run |-> [c \in CycleIds |-> IdleCycle]]

\* intervalId = setInterval(runWorkerCycle, INTERVAL_MS)
SetInterval(w) ==
    [w EXCEPT !.intervals = @ + 1, !.intervalId = w.intervals + 1,
              !.timers = @ \cup {w.intervals + 1}]

\* The worker after start(), between two cycles.
IdleWorker == SetInterval(StoppedWorker(BATCH_SIZE))

\* The end of an invocation (finally: isRunning = false); a start() that was
\* awaiting it goes on to set the interval.
CycleEnd(w, c) ==
    LET v == [w EXCEPT !.isRunning = FALSE, !.run[c] = IdleCycle]
    IN  IF w.run[c].fromStart THEN SetInterval(v) ELSE v

\* runWorkerCycle past its guard, up to the result msgs of
\* getMessagesReadyForQueue: with nothing to queue the cycle ends at once.
RunWorkerCycle(w, c, fromStart, msgs) ==
    LET v == [w EXCEPT !.isRunning = TRUE,
                       !.run[c] = [pc |-> "publish", messages |-> msgs,
                                   queuedIds |-> <<>>, fromStart |-> fromStart]]
    IN  IF msgs = <<>> THEN CycleEnd(v, c) ELSE v

\* A publish loop that collects every selected row, whatever publish returned.
PublishedAll(msgs, ok) == msgs

\* The payloads of the selected rows whose publish returned true, in order.
RECURSIVE Published(_, _)
Published(msgs, ok) ==
    IF msgs = <<>> THEN <<>>
    ELSE (IF Head(msgs) \in ok THEN <<Head(msgs)>> ELSE <<>>)
         \o Published(Tail(msgs), ok)

Range(f) == {f[i] : i \in DOMAIN f}

\* A timer tick calls runWorkerCycle: refused while isRunning (the tick
\* returns and nothing changes), else the cycle runs up to its select.
PqSelect(c) ==
    /\ pq.timers # {}
    /\ ~pq.isRunning
    /\ cycles < MaxCycles
    /\ c = cycles + 1
    /\ cycles' = cycles + 1
    /\ \E msgs \in getMessagesReadyForQueue(PRE_QUEUE_MINUTES, pq.batchSize) :
          pq' = RunWorkerCycle(pq, c, FALSE, msgs)
    /\ UNCHANGED <<scheduled_messages, drip_contact, contacts, users,
                   drip_queue, mc, published, drip_calls>>
    /\ UNCHANGED <<creditVars, inboxVars, gatewayVars>>
    /\ UNCHANGED drip_settled
    /\ UNCHANGED extVars

\* pushMessagesToQueue: without a connection (isConnected() is false) it
\* publishes nothing, and channel.publish throws on a channel that is closed.
Publishable(msgs) == IF connection = "open" THEN Range(msgs) ELSE {}

\* pushMessagesToQueue: the publish loop (no await in it). channel.publish
\* returns true or, with the buffer full, false, for each row.
PqPublish(c) ==
    /\ pq.run[c].pc = "publish"
    /\ \E ok \in SUBSET Publishable(pq.run[c].messages) :
          LET ids == Published(pq.run[c].messages, ok) IN
          /\ drip_queue' = drip_queue \o [i \in 1..Len(ids) |-> DripPayload(ids[i])]
          /\ published' = [s \in ScheduledIds |->
                              published[s] + (IF s \in ok THEN 1 ELSE 0)]
          /\ pq' = IF ids = <<>> THEN CycleEnd(pq, c)
                   ELSE [pq EXCEPT !.run[c].pc = "mark", !.run[c].queuedIds = ids]
    /\ UNCHANGED <<scheduled_messages, drip_contact, contacts, users, mc,
                   drip_calls, cycles>>
    /\ UNCHANGED <<creditVars, inboxVars, gatewayVars>>
    /\ UNCHANGED drip_settled
    /\ UNCHANGED extVars

\* markMessagesAsQueued(queuedIds); a failing update is logged and returns 0.
\* Then the cycle ends (finally: isRunning = false).
PqMark(c) ==
    /\ pq.run[c].pc = "mark"
    /\ \E updated \in BOOLEAN :
          scheduled_messages' =
              IF updated THEN markMessagesAsQueued(Range(pq.run[c].queuedIds))
              ELSE scheduled_messages
    /\ pq' = CycleEnd(pq, c)
    /\ UNCHANGED <<drip_contact, contacts, users, drip_queue, mc, published,
                   drip_calls, cycles>>
    /\ UNCHANGED <<creditVars, inboxVars, gatewayVars>>
    /\ UNCHANGED drip_settled
    /\ UNCHANGED extVars

\* start(): runWorkerCycle() is awaited (it returns at once while isRunning),
\* then the interval is set.
PqStart ==
    /\ pq.intervals < MaxStarts
    /\ cycles < MaxCycles
    /\ IF pq.isRunning
       THEN /\ pq' = SetInterval(pq)
            /\ cycles' = cycles
       ELSE /\ \E msgs \in getMessagesReadyForQueue(PRE_QUEUE_MINUTES,
                                                     pq.batchSize) :
                  pq' = RunWorkerCycle(pq, cycles + 1, TRUE, msgs)
            /\ cycles' = cycles + 1
    /\ UNCHANGED <<scheduled_messages, drip_contact, contacts, users,
                   drip_queue, mc, published, drip_calls>>
    /\ UNCHANGED <<creditVars, inboxVars, gatewayVars>>
    /\ UNCHANGED drip_settled
    /\ UNCHANGED extVars

\* stop(): clearInterval(intervalId), intervalId = null, isRunning = false.
PqStop ==
    /\ pq.intervalId # 0 \/ pq.isRunning
    /\ pq' = [pq EXCEPT !.timers = @ \ {pq.intervalId}, !.intervalId = 0,
                        !.isRunning = FALSE]
    /\ UNCHANGED <<scheduled_messages, drip_contact, contacts, users,
                   drip_queue, mc, published, drip_calls, cycles>>
    /\ UNCHANGED <<creditVars, inboxVars, gatewayVars>>
    /\ UNCHANGED drip_settled
    /\ UNCHANGED extVars

\* The upstream API cancels a scheduled message that is still Pending.
Cancel(s) ==
    /\ scheduled_messages[s].status = PENDING
    /\ scheduled_messages' = [scheduled_messages EXCEPT ![s].status = CANCELLED]
    /\ UNCHANGED <<drip_contact, contacts, users, drip_queue, pq, mc, published,
                   drip_calls, cycles>>
    /\ UNCHANGED <<creditVars, inboxVars, gatewayVars>>
    /\ UNCHANGED drip_settled
    /\ UNCHANGED extVars

\* ------------------------------------------------------- messageConsumer

SMS_CREDIT_COST == 1

ContactIds == {1}

ContactOk == [exists |-> TRUE, deleted |-> FALSE, opted_out |-> FALSE,
              is_block |-> FALSE]
ContactRows == {ContactOk, [ContactOk EXCEPT !.exists = FALSE],
                [ContactOk EXCEPT !.deleted = TRUE],
                [ContactOk EXCEPT !.opted_out = TRUE],
                [ContactOk EXCEPT !.is_block = TRUE]}

UserActive == [exists |-> TRUE, messaging_status |-> 1]
UserRows == {UserActive, [UserActive EXCEPT !.messaging_status = 0],
             [UserActive EXCEPT !.exists = FALSE]}

NoDripContact == [status |-> 0, sent_at |-> FALSE, message_id |-> 0,
                  error_message |-> NULL]

IdleConsumer == [pc |-> "idle", msgData |-> DripPayload(1),
                 twilioResult |-> NoResult, deductRow |-> 0,
                 createdMessage |-> 0, error |-> NULL, withDrip |-> FALSE,
                 success |-> FALSE]

\* Messages in drip.messages.queue that are no payload of the pre-queue
\* worker: bytes that JSON.parse rejects, and the JSON text null.
NotJson == [DripPayload(1) EXCEPT !.content = "not json", !.scheduledMessageId = 0]
JsonNull == [DripPayload(1) EXCEPT !.content = "null", !.scheduledMessageId = 0]

NoneSettled ==
    [delivered |-> 0, acked |-> 0, rejected |-> 0, requeued |-> 0, expired |-> 0]

\* A reject that puts the message back in the queue.
RequeueDrip(settled) ==
    [settled EXCEPT !.rejected = @ + 1, !.requeued = @ + 1]

\* channel.nack(msg, false, false)
RejectDrip(settled) == [settled EXCEPT !.rejected = @ + 1]

\* The messages row processMessage inserts after a successful send.
DripMessageRow(sid) ==
    [msg_id |-> sid, status |-> "1", delivery_status |-> "sent",
     is_charged |-> 0, is_drip |-> 1]

InitDripTables(contact, user) ==
    /\ scheduled_messages = [s \in ScheduledIds |-> EnrolledRow(s)]
    /\ drip_contact = [s \in ScheduledIds |-> NoDripContact]
    /\ contacts = [c \in ContactIds |-> contact]
    /\ users = [u \in Users |-> user]
    /\ drip_queue = <<>>
    /\ drip_settled = NoneSettled
    /\ mc = [p \in Procs |-> IdleConsumer]
    /\ published = [s \in ScheduledIds |-> 0]
    /\ drip_calls = [s \in ScheduledIds |-> 0]
    /\ cycles = 0

\* The drip tables with the pre-queue worker started and between two cycles.
InitDrip(contact, user) ==
    /\ InitDripTables(contact, user)
    /\ pq = IdleWorker

inboxOnlyVars == <<send_queue, ow, send_acks, twilio_calls, requeues>>

\* A failure path that returns without marking the row.
FailUnmarked(h, error, withDrip) ==
    [h EXCEPT !.pc = "ack", !.error = error, !.withDrip = withDrip]

\* The handler leaves for the failure path: markMessageAsFailed(id, error),
\* then, where the branch has it, the drip_contact update, then the return.
Fail(h, error, withDrip) ==
    [h EXCEPT !.pc = "markFailed", !.error = error, !.withDrip = withDrip]

\* A handler that sends although deductCredits threw.
AfterDeductIgnoresError(h, t) == [h EXCEPT !.pc = "twilio", !.deductRow = t.row]

\* The try/catch around deductCredits: on to the send, or to the failure path
\* with the error's message.
AfterDeduct(h, t) ==
    IF t.pc = "ok" THEN [h EXCEPT !.pc = "twilio", !.deductRow = t.row]
    ELSE Fail(h, t.error, TRUE)

\* messageHandler: a message is delivered and parsed, processMessage starts
\* (and sleeps RATE_LIMIT_MS). JSON.parse throws on what is no JSON, and
\* processMessage throws on null before its try (msgData.scheduledMessageId):
\* both end in the catch of messageHandler.
McDeliver(p) ==
    /\ mc[p].pc = "idle"
    /\ drip_queue # <<>>
    /\ mc' = [mc EXCEPT ![p] =
          [IdleConsumer EXCEPT !.pc = IF Head(drip_queue).content = "json"
                                      THEN "contact" ELSE "nack",
                               !.msgData = Head(drip_queue)]]
    /\ drip_queue' = Tail(drip_queue)
    /\ drip_settled' = [drip_settled EXCEPT !.delivered = @ + 1]
    /\ UNCHANGED <<scheduled_messages, drip_contact, contacts, users, pq,
                   published, drip_calls, cycles>>
    /\ UNCHANGED <<creditVars, inboxVars, gatewayVars>>
    /\ UNCHANGED extVars

\* The contacts read (whereNull deleted_at) and the two contact checks.
McContact(p) ==
    /\ mc[p].pc = "contact"
    /\ LET contact == contacts[mc[p].msgData.contactId] IN
       mc' = [mc EXCEPT ![p] =
          IF ~contact.exists \/ contact.deleted
          THEN Fail(@, "Contact not found or deleted", FALSE)
          ELSE IF contact.opted_out \/ contact.is_block
          THEN Fail(@, "Contact opted out or blocked", FALSE)
          ELSE [@ EXCEPT !.pc = "user"]]
    /\ UNCHANGED <<scheduled_messages, drip_contact, contacts, users,
                   drip_queue, pq, published, drip_calls, cycles>>
    /\ UNCHANGED <<creditVars, inboxVars, gatewayVars>>
    /\ UNCHANGED drip_settled
    /\ UNCHANGED extVars

\* The users read and the two user checks.
McUser(p) ==
    /\ mc[p].pc = "user"
    /\ LET user == users[mc[p].msgData.userId] IN
       mc' = [mc EXCEPT ![p] =
          IF ~user.exists THEN Fail(@, "User not found", FALSE)
          ELSE IF user.messaging_status # 1
          THEN Fail(@, "User messaging disabled", FALSE)
          ELSE [@ EXCEPT !.pc = "credits"]]
    /\ UNCHANGED <<scheduled_messages, drip_contact, contacts, users,
                   drip_queue, pq, published, drip_calls, cycles>>
    /\ UNCHANGED <<creditVars, inboxVars, gatewayVars>>
    /\ UNCHANGED drip_settled
    /\ UNCHANGED extVars

\* hasEnoughCredits(userId, SMS_CREDIT_COST); if true, deductCredits is called
\* (reference drip_sms / dripId) and opens its transaction.
McCredits(p) ==
    /\ mc[p].pc = "credits"
    /\ IF hasEnoughCredits(mc[p].msgData.userId, SMS_CREDIT_COST)
       THEN /\ mc' = [mc EXCEPT ![p].pc = "deduct"]
            /\ trx' = [trx EXCEPT ![p] =
                          DeductBegin(p, mc[p].msgData.userId, SMS_CREDIT_COST,
                                      "drip_sms", mc[p].msgData.dripId)]
       ELSE /\ mc' = [mc EXCEPT ![p] = Fail(@, "Insufficient credits", TRUE)]
            /\ trx' = trx
    /\ UNCHANGED <<scheduled_messages, drip_contact, contacts, users,
                   drip_queue, pq, published, drip_calls, cycles>>
    /\ UNCHANGED <<user_credits, credit_transactions, initial_balance, ncalls>>
    /\ UNCHANGED <<inboxVars, gatewayVars>>
    /\ UNCHANGED drip_settled
    /\ UNCHANGED extVars

\* deductCredits returned or threw.
McDeducted(p) ==
    /\ mc[p].pc = "deduct"
    /\ trx[p].pc \in {"ok", "err"}
    /\ mc' = [mc EXCEPT ![p] = AfterDeduct(@, trx[p])]
    /\ trx' = [trx EXCEPT ![p] = NoTrx]
    /\ UNCHANGED <<scheduled_messages, drip_contact, contacts, users,
                   drip_queue, pq, published, drip_calls, cycles>>
    /\ UNCHANGED <<user_credits, credit_transactions, initial_balance, ncalls>>
    /\ UNCHANGED <<inboxVars, gatewayVars>>
    /\ UNCHANGED drip_settled
    /\ UNCHANGED extVars

\* twilioService.sendSMS(...)
McTwilio(p) ==
    /\ mc[p].pc = "twilio"
    /\ \E ok \in BOOLEAN :
          /\ mc' = [mc EXCEPT ![p] =
                IF ok THEN [@ EXCEPT !.pc = "insert", !.twilioResult = SendSMS(ok)]
                ELSE Fail([@ EXCEPT !.twilioResult = SendSMS(ok)],
                          "Twilio send failed", TRUE)]
          /\ twilio_sids' = IF ok THEN twilio_sids + 1 ELSE twilio_sids
    /\ drip_calls' = [drip_calls EXCEPT ![mc[p].msgData.scheduledMessageId] = @ + 1]
    /\ UNCHANGED <<scheduled_messages, drip_contact, contacts, users,
                   drip_queue, pq, published, cycles>>
    /\ UNCHANGED <<creditVars, messages, inboxOnlyVars>>
    /\ UNCHANGED drip_settled
    /\ UNCHANGED extVars

\* dbWriter('messages').insert(messageData).returning('*'); an insert error
\* is logged and createdMessage stays null (0).
McInsert(p) ==
    /\ mc[p].pc = "insert"
    /\ \E inserted \in BOOLEAN :
          /\ messages' = IF inserted
                         THEN Append(messages, DripMessageRow(mc[p].twilioResult.sid))
                         ELSE messages
          /\ mc' = [mc EXCEPT ![p].pc = "markSent",
                              ![p].createdMessage =
                                  IF inserted THEN Len(messages) + 1 ELSE 0]
    /\ UNCHANGED <<scheduled_messages, drip_contact, contacts, users,
                   drip_queue, pq, published, drip_calls, cycles>>
    /\ UNCHANGED <<creditVars, inboxOnlyVars, twilio_sids>>
    /\ UNCHANGED drip_settled
    /\ UNCHANGED extVars

\* markMessageAsSent(scheduledMessageId, createdMessage?.id, twilioResult.sid)
McMarkSent(p) ==
    /\ mc[p].pc = "markSent"
    /\ scheduled_messages' =
          [scheduled_messages EXCEPT ![mc[p].msgData.scheduledMessageId] =
              markMessageAsSent(@, mc[p].createdMessage, mc[p].twilioResult.sid)]
    /\ mc' = [mc EXCEPT ![p].pc = "dripSent"]
    /\ UNCHANGED <<drip_contact, contacts, users, drip_queue, pq, published,
                   drip_calls, cycles>>
    /\ UNCHANGED <<creditVars, inboxVars, gatewayVars>>
    /\ UNCHANGED drip_settled
    /\ UNCHANGED extVars

\* The drip_contact update to SENT (1), then the contacts update of
\* last_message; the handler returns {success: true}.
McDripSent(p) ==
    /\ mc[p].pc = "dripSent"
    /\ drip_contact' = [drip_contact EXCEPT ![mc[p].msgData.dripContactId] =
          [@ EXCEPT !.status = 1, !.sent_at = TRUE,
                    !.message_id = mc[p].createdMessage]]
    /\ mc' = [mc EXCEPT ![p].pc = "ack", ![p].success = TRUE]
    /\ UNCHANGED <<scheduled_messages, contacts, users, drip_queue, pq,
                   published, drip_calls, cycles>>
    /\ UNCHANGED <<creditVars, inboxVars, gatewayVars>>
    /\ UNCHANGED drip_settled
    /\ UNCHANGED extVars

\* markMessageAsFailed(scheduledMessageId, error)
McMarkFailed(p) ==
    /\ mc[p].pc = "markFailed"
    /\ scheduled_messages' =
          [scheduled_messages EXCEPT ![mc[p].msgData.scheduledMessageId] =
              markMessageAsFailed(@, mc[p].error)]
    /\ mc' = [mc EXCEPT ![p].pc = IF mc[p].withDrip THEN "dripFailed" ELSE "ack"]
    /\ UNCHANGED <<drip_contact, contacts, users, drip_queue, pq, published,
                   drip_calls, cycles>>
    /\ UNCHANGED <<creditVars, inboxVars, gatewayVars>>
    /\ UNCHANGED drip_settled
    /\ UNCHANGED extVars

\* The drip_contact update to FAILED (3); the handler returns {success: false}.
McDripFailed(p) ==
    /\ mc[p].pc = "dripFailed"
    /\ drip_contact' = [drip_contact EXCEPT ![mc[p].msgData.dripContactId] =
          [@ EXCEPT !.status = 3, !.error_message = mc[p].error]]
    /\ mc' = [mc EXCEPT ![p].pc = "ack"]
    /\ UNCHANGED <<scheduled_messages, contacts, users, drip_queue, pq,
                   published, drip_calls, cycles>>
    /\ UNCHANGED <<creditVars, inboxVars, gatewayVars>>
    /\ UNCHANGED drip_settled
    /\ UNCHANGED extVars

\* channel.ack and channel.nack reach the broker on an open channel; on a
\* closed one they throw and the message stays unsettled.
OnChannel(settled, then) == IF connection = "open" THEN then ELSE settled

\* processMessage returned: channel.ack(msg).
McAck(p) ==
    /\ mc[p].pc = "ack"
    /\ mc' = [mc EXCEPT ![p] = IdleConsumer]
    /\ drip_settled' = OnChannel(drip_settled,
                                 [drip_settled EXCEPT !.acked = @ + 1])
    /\ UNCHANGED <<scheduled_messages, drip_contact, contacts, users,
                   drip_queue, pq, published, drip_calls, cycles>>
    /\ UNCHANGED <<creditVars, inboxVars, gatewayVars>>
    /\ UNCHANGED extVars

\* The catch of messageHandler: channel.nack(msg, false, false).
McNack(p) ==
    /\ mc[p].pc = "nack"
    /\ mc' = [mc EXCEPT ![p] = IdleConsumer]
    /\ drip_settled' = OnChannel(drip_settled, RejectDrip(drip_settled))
    /\ UNCHANGED <<scheduled_messages, drip_contact, contacts, users,
                   drip_queue, pq, published, drip_calls, cycles>>
    /\ UNCHANGED <<creditVars, inboxVars, gatewayVars>>
    /\ UNCHANGED extVars

\* Something in the try of processMessage throws: the catch marks the row
\* Failed with error.message, updates drip_contact and returns.
McThrow(p) ==
    /\ mc[p].pc \in {"contact", "user", "credits", "twilio", "insert",
                     "markSent", "dripSent"}
    /\ mc' = [mc EXCEPT ![p] = Fail(@, "exception", TRUE)]
    /\ UNCHANGED <<scheduled_messages, drip_contact, contacts, users,
                   drip_queue, pq, published, drip_calls, cycles, drip_settled>>
    /\ UNCHANGED <<creditVars, inboxVars, gatewayVars>>
    /\ UNCHANGED extVars

\* ------------------------------------------------------------ RateLimiter

\* Tokens are counted in parts of a token, TokenScale to the token, and the
\* clock steps are the time in which refillRate yields one part: in one clock
\* step the bucket gains one part.
Min(a, b) == IF a < b THEN a ELSE b

\* constructor: tokens = maxTokens, lastRefill = Date.now()
NewRateLimiter == [tokens |-> MaxTokens * TokenScale, lastRefill |-> 0]

InitLimiter ==
    /\ rate_limiter = NewRateLimiter
    /\ now = 0
    /\ rl_wait = [p \in Procs |-> 0]
    /\ acquired = <<>>

\* refill(): tokens = min(maxTokens, tokens + elapsed * refillRate)
Refill(l, t) ==
    [tokens |-> Min(MaxTokens * TokenScale, l.tokens + (t - l.lastRefill)),
     lastRefill |-> t]

\* acquire(): tryAcquire() takes a token if a whole one is there; otherwise a
\* timer is set for the time the missing part takes to refill.
Acquire(p) ==
    /\ rl_wait[p] = 0
    /\ Len(acquired) + Cardinality({q \in Procs : rl_wait[q] # 0}) < MaxAcquires
    /\ LET l == Refill(rate_limiter, now) IN
       IF l.tokens >= TokenScale
       THEN /\ rate_limiter' = [l EXCEPT !.tokens = @ - TokenScale]
            /\ acquired' = Append(acquired, now)
            /\ rl_wait' = rl_wait
       ELSE /\ rate_limiter' = l
            /\ acquired' = acquired
            /\ rl_wait' = [rl_wait EXCEPT ![p] = now + (TokenScale - l.tokens)]
    /\ UNCHANGED <<now, coreVars, broker, svcVars>>

\* The setTimeout callback of a waiting acquire(): refill(), tokens -= 1,
\* resolve().
AcquireWake(p) ==
    /\ rl_wait[p] # 0
    /\ rl_wait[p] <= now
    /\ rate_limiter' = [Refill(rate_limiter, now) EXCEPT !.tokens = @ - TokenScale]
    /\ acquired' = Append(acquired, now)
    /\ rl_wait' = [rl_wait EXCEPT ![p] = 0]
    /\ UNCHANGED <<now, coreVars, broker, svcVars>>

\* The clock advances one step; a timer that is due fires first.
ClockStep ==
    /\ now < MaxTime
    /\ \A p \in Procs : rl_wait[p] = 0 \/ rl_wait[p] > now
    /\ now' = now + 1
    /\ UNCHANGED <<rate_limiter, rl_wait, acquired, coreVars, broker, svcVars>>

\* --------------------------------------------- broker queues and consumers

SEND_MESSAGE == "inbox.send.message"
INBOUND_MESSAGE == "inbox.inbound.message"
STATUS_UPDATE == "inbox.status.update"
WEBHOOK == "webhook"

\* The queues consumed through rabbitmq.consume(queueName, handler).
ConsumeQueues == {SEND_MESSAGE, INBOUND_MESSAGE}

Queues == ConsumeQueues \cup {STATUS_UPDATE, WEBHOOK}

\* What a publisher may have put in a message: JSON, or bytes that
\* JSON.parse rejects; the header x-retry-count, absent (0), or set by the
\* publisher, here to the last value before the limit.
Contents == {"json", "not json"}
RetryHeaders == {0, MAX_RETRY_COUNT - 1}

\* A message ready in its queue, never delivered.
ReadyMessage(content, xRetryCount) ==
    [content |-> content, xRetryCount |-> xRetryCount, state |-> "ready",
     deliveries |-> 0, acks |-> 0, nacks |-> 0, requeues |-> 0,
     outcome |-> "none"]

\* The messages of a queue, by delivery tag.
MsgIds == 1..NumBrokerMsgs

InitBroker == broker = [q \in Queues |-> [i \in MsgIds |-> ReadyMessage("json", 0)]]

\* ch.ack(msg)
AckMsg(msg) == [msg EXCEPT !.state = "acked", !.acks = @ + 1]

\* ch.nack(msg, false, requeue): back to the queue as it was published, or
\* out of it (to the dead-letter exchange).
NackMsg(msg, requeue) ==
    IF requeue
    THEN [msg EXCEPT !.state = "ready", !.nacks = @ + 1, !.requeues = @ + 1]
    ELSE [msg EXCEPT !.state = "dead", !.nacks = @ + 1]

\* The broker delivers the message to the consumer callback.
Delivered(msg) == [msg EXCEPT !.state = "unacked", !.deliveries = @ + 1]

\* consume(): retryCount = (headers['x-retry-count'] || 0) + 1
RetryCount(msg) == msg.xRetryCount + 1

\* consume(): the callback is called with a message.
ConsumeDeliver(q, i) ==
    /\ q \in ConsumeQueues
    /\ broker[q][i].state = "ready"
    /\ broker[q][i].deliveries < MaxDeliveries
    /\ broker' = [broker EXCEPT ![q][i] = Delivered(@)]
    /\ UNCHANGED <<coreVars, limiterVars, svcVars>>

\* consume(): JSON.parse succeeded and the handler returned: ch.ack(msg).
ConsumeAck(q, i) ==
    /\ q \in ConsumeQueues
    /\ broker[q][i].state = "unacked"
    /\ broker[q][i].content = "json"
    /\ broker' = [broker EXCEPT ![q][i] = AckMsg([@ EXCEPT !.outcome = "ok"])]
    /\ UNCHANGED <<coreVars, limiterVars, svcVars>>

\* consume(): JSON.parse or the handler threw: nack with requeue while
\* retryCount < 3, else nack without requeue.
ConsumeNack(q, i) ==
    /\ q \in ConsumeQueues
    /\ broker[q][i].state = "unacked"
    /\ broker' = [broker EXCEPT ![q][i] =
          NackMsg([@ EXCEPT !.outcome = "threw"], RetryCount(@) < MAX_RETRY_COUNT)]
    /\ UNCHANGED <<coreVars, limiterVars, svcVars>>

\* A catch that requeues the message as consume() does.
RequeueOnError(msg) == NackMsg(msg, TRUE)

\* The catch around handleStatusUpdate / handleWebhookMessage: channel.ack(msg)
AckOnError(msg) == AckMsg(msg)

\* The callback of channel.consume in deliveryReportWorker and webhookWorker
\* up to the handler call: a message that does not parse is nacked without
\* requeue at once.
WorkerReceive(msg) ==
    IF msg.content = "not json" THEN NackMsg(Delivered(msg), FALSE)
    ELSE Delivered(msg)

\* The handler has returned ({success: true} or {success: false}) or thrown.
WorkerSettle(msg, outcome) ==
    IF outcome = "threw" THEN AckOnError([msg EXCEPT !.outcome = outcome])
    ELSE AckMsg([msg EXCEPT !.outcome = outcome])

\* deliveryReportWorker: a message arrives from inbox.status.update.
StatusDeliver(i) ==
    /\ broker[STATUS_UPDATE][i].state = "ready"
    /\ broker' = [broker EXCEPT ![STATUS_UPDATE][i] = WorkerReceive(@)]
    /\ UNCHANGED <<coreVars, limiterVars, svcVars>>

\* deliveryReportWorker: handleStatusUpdate is done (updated, message not
\* found or update failed, or thrown).
StatusHandled(i) ==
    /\ broker[STATUS_UPDATE][i].state = "unacked"
    /\ \E outcome \in {"ok", "failed", "threw"} :
          broker' = [broker EXCEPT ![STATUS_UPDATE][i] = WorkerSettle(@, outcome)]
    /\ UNCHANGED <<coreVars, limiterVars, svcVars>>

\* webhookWorker: a message arrives from the webhook queue.
WebhookDeliver(i) ==
    /\ broker[WEBHOOK][i].state = "ready"
    /\ broker' = [broker EXCEPT ![WEBHOOK][i] = WorkerReceive(@)]
    /\ UNCHANGED <<coreVars, limiterVars, svcVars>>

\* webhookWorker: handleWebhookMessage is done (delivered; non-2xx, inactive
\* webhook or unknown type, which return; or thrown).
WebhookHandled(i) ==
    /\ broker[WEBHOOK][i].state = "unacked"
    /\ \E outcome \in {"ok", "failed", "threw"} :
          broker' = [broker EXCEPT ![WEBHOOK][i] = WorkerSettle(@, outcome)]
    /\ UNCHANGED <<coreVars, limiterVars, svcVars>>

\* ------------------------------------------ config/rabbitmq: reconnection

MAX_RECONNECT_ATTEMPTS == 10

RECURSIVE Pow2(_)
Pow2(n) == IF n = 0 THEN 1 ELSE 2 * Pow2(n - 1)

\* const delay = Math.min(1000 * Math.pow(2, reconnectAttempts), 30000)
ReconnectDelay(attempts) == Min(1000 * Pow2(attempts), 30000)

\* The queue of the drip dispatcher.
DRIP_MESSAGES == "drip.messages.queue"

\* The queues the workers consume.
LinkQueues == Queues \cup {DRIP_MESSAGES}

LinkIds == 1..MaxLinks

IdleLink == [pc |-> "idle", queue |-> DRIP_MESSAGES, channel |-> 0, delivery |-> 0]

\* connect() has opened the first link and every worker has started its
\* consumer on the channel of that link.
InitLinked ==
    /\ links = [n \in LinkIds |-> IF n = 1 THEN "open" ELSE "none"]
    /\ current = 1
    /\ consumers = [q \in LinkQueues |-> 1]
    /\ lh = IdleLink
    /\ link_acks = {}

\* No link yet and no consumer.
InitUnlinked ==
    /\ links = [n \in LinkIds |-> "none"]
    /\ current = 0
    /\ consumers = [q \in LinkQueues |-> 0]
    /\ lh = IdleLink
    /\ link_acks = {}

\* After connect() succeeded, as the workers run.
InitConnected ==
    /\ InitLinked
    /\ connection = "open"
    /\ reconnectAttempts = 0
    /\ reconnect_timers = <<>>
    /\ failed_connects = 0
    /\ drops = 0

\* Before the first connect() of the process.
InitConn ==
    /\ InitUnlinked
    /\ connection = "closed"
    /\ reconnectAttempts = 0
    /\ reconnect_timers = <<>>
    /\ failed_connects = 0
    /\ drops = 0

\* reconnect(): at the limit it logs and returns; below it, it counts the
\* attempt and sets the timer. c is [attempts, timers].
Reconnect(c) ==
    IF c.attempts >= MAX_RECONNECT_ATTEMPTS
    THEN c
    ELSE [attempts |-> c.attempts + 1,
          timers |-> Append(c.timers, ReconnectDelay(c.attempts + 1))]

\* connect(): amqp.connect either opens the connection, and connect()
\* returns it, or throws; the catch of connect() calls reconnect() and
\* returns null. connect() never rejects. c is [attempts, timers].
ConnectFailed(c) == Reconnect(c)

\* The first connect() of the process (app.js startWorkers, or a worker's
\* start()).
Connect ==
    /\ connection = "closed"
    /\ reconnectAttempts = 0
    /\ reconnect_timers = <<>>
    /\ failed_connects = 0
    /\ drops = 0
    /\ \E reachable \in BOOLEAN :
        IF reachable
        THEN /\ connection' = "open"
             /\ UNCHANGED <<reconnectAttempts, reconnect_timers,
                            failed_connects>>
        ELSE LET c == ConnectFailed([attempts |-> reconnectAttempts,
                                     timers |-> reconnect_timers]) IN
             /\ reconnectAttempts' = c.attempts
             /\ reconnect_timers' = c.timers
             /\ failed_connects' = failed_connects + 1
             /\ UNCHANGED connection
    /\ UNCHANGED drops
    /\ UNCHANGED exceptConn

\* connection.on('error') and connection.on('close'): each calls
\* reconnect(). A connection that breaks emits 'error' and then 'close'; one
\* that is shut by the broker emits 'close' alone.
ConnectionEvent ==
    /\ drops < MaxDrops
    /\ \E event \in {"error", "close"} :
        IF event = "error"
        THEN connection = "open" /\ connection' = "broken"
        ELSE connection \in {"open", "broken"} /\ connection' = "closed"
    /\ LET c == Reconnect([attempts |-> reconnectAttempts,
                           timers |-> reconnect_timers]) IN
       /\ reconnectAttempts' = c.attempts
       /\ reconnect_timers' = c.timers
    /\ drops' = drops + 1
    /\ UNCHANGED failed_connects
    /\ UNCHANGED exceptConn

\* The setTimeout callback of reconnect(): await connect();
\* reconnectAttempts = 0. The catch of the callback is never entered, since
\* connect() does not reject.
ReconnectTimer(i) ==
    /\ i \in 1..Len(reconnect_timers)
    /\ failed_connects < MaxConnects
    /\ LET rest == [j \in 1..(Len(reconnect_timers) - 1) |->
                      IF j < i THEN reconnect_timers[j]
                      ELSE reconnect_timers[j + 1]] IN
       \E reachable \in BOOLEAN :
        IF reachable
        THEN /\ connection' = "open"
             /\ reconnectAttempts' = 0
             /\ reconnect_timers' = rest
             /\ failed_connects' = 0
        ELSE LET c == ConnectFailed([attempts |-> reconnectAttempts,
                                     timers |-> rest]) IN
             /\ UNCHANGED connection
             /\ reconnectAttempts' = 0
             /\ reconnect_timers' = c.timers
             /\ failed_connects' = failed_connects + 1
    /\ UNCHANGED drops
    /\ UNCHANGED exceptConn

\* --------------------------------- deliveryReportWorker: status callbacks

UNDEFINED == "undefined"

\* A status map that files undelivered under failed.
STATUS_MAP_UNDELIVERED_AS_FAILED ==
    [queued |-> [status |-> "0", delivery_status |-> "queued"],
     sending |-> [status |-> "1", delivery_status |-> "sending"],
     sent |-> [status |-> "1", delivery_status |-> "sent"],
     delivered |-> [status |-> "2", delivery_status |-> "delivered"],
     undelivered |-> [status |-> "3", delivery_status |-> "failed"],
     failed |-> [status |-> "3", delivery_status |-> "failed"],
     read |-> [status |-> "2", delivery_status |-> "read"]]

STATUS_MAP ==
    [queued |-> [status |-> "0", delivery_status |-> "queued"],
     sending |-> [status |-> "1", delivery_status |-> "sending"],
     sent |-> [status |-> "1", delivery_status |-> "sent"],
     delivered |-> [status |-> "2", delivery_status |-> "delivered"],
     undelivered |-> [status |-> "4", delivery_status |-> "undelivered"],
     failed |-> [status |-> "3", delivery_status |-> "failed"],
     read |-> [status |-> "2", delivery_status |-> "read"]]

\* The provider statuses of the callbacks: those of the map, and one that is
\* none of them.
ProviderStatuses == DOMAIN STATUS_MAP \cup {"accepted"}

\* b_ref of messages row m.
BRef(m) == m

\* The payload of inbox.status.update; bRef 0 and messageSid NoSid stand for
\* a field the payload does not have.
StatusPayload(bRef, status, messageSid) ==
    [bRef |-> bRef, status |-> status, messageSid |-> messageSid]

StatusPayloads ==
    {StatusPayload(b, st, sid) :
        b \in {0} \cup InboxIds, st \in ProviderStatuses,
        sid \in {NoSid} \cup InboxIds}

IdleStatus == [pc |-> "idle", data |-> StatusPayload(0, "queued", NoSid),
               message |-> 0]

InitStatus ==
    /\ status_queue = <<>>
    /\ sw = [p \in Procs |-> IdleStatus]

\* where(b_ref = bRef OR msg_id = messageSid): the rows the select matches.
\* An undefined value in either where makes the query fail, and the failed
\* query is taken for no message.
MatchingMessages(data) ==
    IF data.bRef = 0 \/ data.messageSid = NoSid THEN {}
    ELSE {m \in DOMAIN messages :
            BRef(m) = data.bRef \/ messages[m].msg_id = data.messageSid}

\* const statusData = STATUS_MAP[status] || {status: message.status,
\* delivery_status: status}; message was selected without its status column,
\* so message.status is undefined.
StatusData(status) ==
    IF status \in DOMAIN STATUS_MAP THEN STATUS_MAP[status]
    ELSE [status |-> UNDEFINED, delivery_status |-> status]

\* where({id}).update(updateData): a column whose value is undefined is left
\* out of the UPDATE; msg_id is written when messageSid is given.
UpdateDelivery(row, statusData, messageSid) ==
    [row EXCEPT !.status = IF statusData.status = UNDEFINED THEN @
                           ELSE statusData.status,
                !.delivery_status = statusData.delivery_status,
                !.msg_id = IF messageSid = NoSid THEN @ ELSE messageSid]

\* A callback is delivered and parsed; handleStatusUpdate calls
\* updateDeliveryStatus(bRef, status, messageSid).
StatusReceive(p) ==
    /\ sw[p].pc = "idle"
    /\ status_queue # <<>>
    /\ sw' = [sw EXCEPT ![p] = [IdleStatus EXCEPT !.pc = "find",
                                                  !.data = Head(status_queue)]]
    /\ status_queue' = Tail(status_queue)
    /\ UNCHANGED messages
    /\ UNCHANGED exceptStatus

\* The select ... first(): one of the matching rows, or none, and then the
\* handler returns {success: false} and the message is acked.
StatusFind(p) ==
    /\ sw[p].pc = "find"
    /\ IF MatchingMessages(sw[p].data) = {}
       THEN sw' = [sw EXCEPT ![p] = IdleStatus]
       ELSE \E m \in MatchingMessages(sw[p].data) :
               sw' = [sw EXCEPT ![p].pc = "update", ![p].message = m]
    /\ UNCHANGED <<status_queue, messages>>
    /\ UNCHANGED exceptStatus

\* The update of the row found; the notifications follow and the message is
\* acked.
StatusUpdate(p) ==
    /\ sw[p].pc = "update"
    /\ messages' = [messages EXCEPT ![sw[p].message] =
          UpdateDelivery(@, StatusData(sw[p].data.status),
                         sw[p].data.messageSid)]
    /\ sw' = [sw EXCEPT ![p] = IdleStatus]
    /\ UNCHANGED status_queue
    /\ UNCHANGED exceptStatus

\* ------------------------------------------- webhookWorker: the dispatcher

WebhookIds == 1..NumWebhooks

EventTypes == {"message.inbound", "message.delivered"}

\* A webhooks row: subscribed to `events`; mine says that its user_id and
\* workspace_id are those of the events produced.
WebhookRow(status, events, mine) ==
    [status |-> status, events |-> events, mine |-> mine, failure_count |-> 0,
     triggered |-> FALSE]

\* createDelivery: the row inserted, status 'pending'.
PendingDelivery(webhookId, eventType) ==
    [webhook_id |-> webhookId, event_type |-> eventType, status |-> "pending"]

\* The job queueWebhookEvent publishes.
DispatchJob(deliveryId, webhookId) ==
    [type |-> "WEBHOOK_DISPATCH", deliveryId |-> deliveryId,
     webhookId |-> webhookId]

\* What axios.post ends with: a response (validateStatus accepts any status),
\* whose body axios hands over as an object, as a string, or, for a JSON text
\* that is a number or true, as that scalar; or an error (timeout, DNS,
\* refused connection).
Responses ==
    {[kind |-> "response", status |-> st, body |-> b] :
        st \in {200, 299, 300, 500}, b \in {"object", "string", "scalar"}}
    \cup {[kind |-> "error", status |-> 0, body |-> "null"]}

NoAttempt == [success |-> FALSE, body |-> "null"]

IdleDispatcher == [pc |-> "idle", job |-> DispatchJob(1, 1),
                   result |-> NoAttempt]

IdleProducer == [pc |-> "idle", eventType |-> "message.inbound",
                 todo |-> <<>>, delivery |-> 0, queued |-> 0, failed |-> 0,
                 calls |-> 0]

InitWebhook ==
    /\ webhooks = [w \in WebhookIds |->
                     WebhookRow("active", {"message.inbound"}, TRUE)]
    /\ webhook_deliveries = <<>>
    /\ webhook_queue = <<>>
    /\ wd = [p \in Procs |-> IdleDispatcher]
    /\ streak = [w \in WebhookIds |-> 0]
    /\ overlapped = FALSE
    /\ wp = IdleProducer
    /\ unroutable = 0

\* dispatchWebhook: success = response.status >= 200 && response.status < 300;
\* the catch gives success false and a null body.
DispatchResult(response) ==
    IF response.kind = "response"
    THEN [success |-> response.status >= 200 /\ response.status < 300,
          body |-> response.body]
    ELSE [success |-> FALSE, body |-> "null"]

\* A job is delivered and parsed; handleWebhookMessage calls dispatchWebhook.
WebhookReceive(p) ==
    /\ wd[p].pc = "idle"
    /\ webhook_queue # <<>>
    /\ wd' = [wd EXCEPT ![p] = [IdleDispatcher EXCEPT !.pc = "post",
                                                      !.job = Head(webhook_queue)]]
    /\ webhook_queue' = Tail(webhook_queue)
    /\ overlapped' = (overlapped \/ \E q \in Procs : wd[q].pc # "idle")
    /\ UNCHANGED <<webhooks, webhook_deliveries, streak, wp, unroutable>>
    /\ UNCHANGED exceptWebhook

\* await axios.post(url, webhookPayload, ...)
WebhookPost(p) ==
    /\ wd[p].pc = "post"
    /\ \E response \in Responses :
          /\ wd' = [wd EXCEPT ![p].pc = "delivery",
                              ![p].result = DispatchResult(response)]
          /\ streak' = [streak EXCEPT ![wd[p].job.webhookId] =
                           IF DispatchResult(response).success THEN 0 ELSE @ + 1]
    /\ UNCHANGED <<webhooks, webhook_deliveries, webhook_queue, overlapped,
                   wp, unroutable>>
    /\ UNCHANGED exceptWebhook

\* updateDeliveryStatus, the webhook_deliveries update. Its argument is built
\* first: response_body is JSON.stringify(body) for an object (null too) and
\* (body || '').substring(0, 5000) otherwise, which throws for a number or
\* true; the catch of updateDeliveryStatus logs, nothing is written and
\* dispatchWebhook returns.
WebhookUpdateDelivery(p) ==
    /\ wd[p].pc = "delivery"
    /\ IF wd[p].result.body = "scalar"
       THEN /\ wd' = [wd EXCEPT ![p] = IdleDispatcher]
            /\ UNCHANGED webhook_deliveries
       ELSE /\ wd' = [wd EXCEPT ![p].pc = "webhook"]
            /\ webhook_deliveries' =
                  [webhook_deliveries EXCEPT ![wd[p].job.deliveryId].status =
                      IF wd[p].result.success THEN "success" ELSE "failed"]
    /\ UNCHANGED <<webhooks, webhook_queue, streak, overlapped, wp,
                   unroutable>>
    /\ UNCHANGED exceptWebhook

\* updateDeliveryStatus, the webhooks update: failure_count 0 and
\* last_triggered_at on success, increment('failure_count', 1) otherwise; the
\* handler returns and the job is acked.
WebhookUpdateStats(p) ==
    /\ wd[p].pc = "webhook"
    /\ webhooks' = [webhooks EXCEPT ![wd[p].job.webhookId] =
          IF wd[p].result.success
          THEN [@ EXCEPT !.failure_count = 0, !.triggered = TRUE]
          ELSE [@ EXCEPT !.failure_count = @ + 1]]
    /\ wd' = [wd EXCEPT ![p] = IdleDispatcher]
    /\ UNCHANGED <<webhook_deliveries, webhook_queue, streak, overlapped, wp,
                   unroutable>>
    /\ UNCHANGED exceptWebhook

\* ------------------------------------------------ webhookProducer.service

\* config/rabbitmq: the routing keys of inbox.exchange and the queues bound
\* with them. There is no key and no queue for webhooks: ROUTING_KEYS.WEBHOOK
\* and QUEUES.WEBHOOK are undefined.
ROUTING_KEYS == [SEND |-> "send", INBOUND |-> "inbound", STATUS |-> "status",
                 NOTIFY |-> "notify", FAILED |-> "failed"]

RoutingKey(name) ==
    IF name \in DOMAIN ROUTING_KEYS THEN ROUTING_KEYS[name] ELSE UNDEFINED

QueueName(name) ==
    IF name = "SEND_MESSAGE" THEN SEND_MESSAGE
    ELSE IF name = "INBOUND_MESSAGE" THEN INBOUND_MESSAGE
    ELSE IF name = "STATUS_UPDATE" THEN STATUS_UPDATE
    ELSE IF name = "NOTIFICATION" THEN "inbox.notification"
    ELSE UNDEFINED

\* bindQueue(queue, EXCHANGES.INBOX, key): the queues a routing key reaches.
BoundQueues(key) ==
    IF key = "send" THEN {SEND_MESSAGE}
    ELSE IF key = "inbound" THEN {INBOUND_MESSAGE}
    ELSE IF key = "status" THEN {STATUS_UPDATE}
    ELSE IF key = "notify" THEN {"inbox.notification"}
    ELSE {}

\* getWebhooksForEvent: where({user_id, workspace_id, status: 'active'})
\* .whereRaw('? = ANY(events)', [eventType]), here in id order.
getWebhooksForEvent(eventType) ==
    SelectSeq([w \in WebhookIds |-> w],
              LAMBDA w : /\ webhooks[w].mine
                         /\ webhooks[w].status = "active"
                         /\ eventType \in webhooks[w].events)

\* queueWebhookEvent(eventData) up to the result of getWebhooksForEvent; with
\* no webhook it returns {queued: 0, failed: 0}.
ProduceEvent ==
    /\ wp.pc = "idle"
    /\ wp.calls < MaxEvents
    /\ \E eventType \in EventTypes :
          LET found == getWebhooksForEvent(eventType) IN
          wp' = [IdleProducer EXCEPT
                    !.pc = IF found = <<>> THEN "idle" ELSE "create",
                    !.eventType = eventType, !.todo = found,
                    !.calls = wp.calls + 1]
    /\ UNCHANGED <<webhooks, webhook_deliveries, webhook_queue, wd, streak,
                   overlapped, unroutable>>
    /\ UNCHANGED exceptWebhook

\* createDelivery for the next webhook of the loop.
ProduceDelivery ==
    /\ wp.pc = "create"
    /\ webhook_deliveries' =
          Append(webhook_deliveries,
                 PendingDelivery(Head(wp.todo), wp.eventType))
    /\ wp' = [wp EXCEPT !.pc = "publish",
                        !.delivery = Len(webhook_deliveries) + 1]
    /\ UNCHANGED <<webhooks, webhook_queue, wd, streak, overlapped,
                   unroutable>>
    /\ UNCHANGED exceptWebhook

\* rabbitmq.publish(rabbitmq.ROUTING_KEYS.WEBHOOK, job): the exchange hands
\* the job to the queues bound with the key, and drops it when there is
\* none. publish returns what channel.publish returned, or false when it
\* threw; the loop counts and goes on to the next webhook.
ProducePublish ==
    /\ wp.pc = "publish"
    /\ LET job == DispatchJob(wp.delivery, Head(wp.todo))
           routed == QueueName("WEBHOOK") \in BoundQueues(RoutingKey("WEBHOOK"))
       IN  /\ webhook_queue' = IF routed THEN Append(webhook_queue, job)
                               ELSE webhook_queue
           /\ unroutable' = IF routed THEN unroutable ELSE unroutable + 1
    /\ \E success \in BOOLEAN :
          wp' = [wp EXCEPT !.pc = IF Tail(wp.todo) = <<>> THEN "idle"
                                  ELSE "create",
                           !.todo = Tail(@),
                           !.queued = IF success THEN @ + 1 ELSE @,
                           !.failed = IF success THEN @ ELSE @ + 1]
    /\ UNCHANGED <<webhooks, webhook_deliveries, wd, streak, overlapped>>
    /\ UNCHANGED exceptWebhook

\* ------------------------------------------ workers/inboundMessageWorker

\* A text as the characters it is made of.
PLUS == "+"
KnownPhone == <<"+", "1", "5", "5">>
UserPhone == <<"+", "1", "7", "7">>
Digits == {"0", "1", "2", "3", "4", "5", "6", "7", "8", "9"}

IsDigit(ch) == ch \in Digits

\* phone.replace(/\D/g, ''), '' for no phone
normalizePhone(phone) == SelectSeq(phone, IsDigit)

\* where phone = number OR phone = normalized OR phone = '+1' + normalized
\* OR phone = '1' + normalized
FuzzyMatch(phone, number) ==
    \/ phone = number
    \/ phone = normalizePhone(number)
    \/ phone = <<PLUS, "1">> \o normalizePhone(number)
    \/ phone = <<"1">> \o normalizePhone(number)

\* The user_numbers table: the one number of user u1, and the phone of
\* each contacts row (all of user u1, workspace 1).
UserNumbers == [u1 |-> UserPhone]
ContactPhone(c) == KnownPhone

\* A message body: a text, each character a letter in upper or lower case
\* or a white space. Body builds the text of a word (its letters, lower
\* case), in upper or lower case, with or without white space around it.
SPACE == " "
WhiteSpace == {SPACE, "\t"}

Char(ch, upper) == [ch |-> ch, upper |-> upper /\ ch \notin WhiteSpace]

Body(word, upper, pad) ==
    LET text == [i \in DOMAIN word |-> Char(word[i], upper)]
        space == IF pad THEN <<Char(SPACE, FALSE)>> ELSE <<>>
    IN  space \o text \o space

RECURSIVE TrimStart(_)
TrimStart(body) ==
    IF body # <<>> /\ Head(body).ch \in WhiteSpace
    THEN TrimStart(Tail(body))
    ELSE body

RECURSIVE TrimEnd(_)
TrimEnd(body) ==
    IF body # <<>> /\ body[Len(body)].ch \in WhiteSpace
    THEN TrimEnd(SubSeq(body, 1, Len(body) - 1))
    ELSE body

\* message.trim()
Trim(body) == TrimEnd(TrimStart(body))

\* toLowerCase()
ToLowerCase(body) == [i \in DOMAIN body |-> [body[i] EXCEPT !.upper = FALSE]]

STOP_WORD == <<"s", "t", "o", "p">>
START_WORD == <<"s", "t", "a", "r", "t">>
HELLO_WORD == <<"h", "e", "l", "l", "o">>
STOP_NOW_WORD == STOP_WORD \o <<SPACE, "n", "o", "w">>

OPT_OUT_KEYWORDS ==
    {STOP_WORD, <<"u", "n", "s", "u", "b", "s", "c", "r", "i", "b", "e">>,
     <<"c", "a", "n", "c", "e", "l">>, <<"e", "n", "d">>,
     <<"q", "u", "i", "t">>, STOP_WORD \o <<"a", "l", "l">>}
OPT_IN_KEYWORDS ==
    {START_WORD, <<"u", "n">> \o STOP_WORD,
     <<"s", "u", "b", "s", "c", "r", "i", "b", "e">>, <<"y", "e", "s">>}

Keyword(k) == Body(k, FALSE, FALSE)

\* Array.includes: the element itself, not a part of it.
Includes(keywords, text) == text \in {Keyword(k) : k \in keywords}

\* A check that takes the body as it came, white space and case included.
isOptOutMessageVerbatim(message) ==
    message # <<>> /\ Includes(OPT_OUT_KEYWORDS, message)

\* if (!message) return false;
\* OPT_OUT_KEYWORDS.includes(message.trim().toLowerCase())
isOptOutMessage(message) ==
    message # <<>> /\ Includes(OPT_OUT_KEYWORDS, ToLowerCase(Trim(message)))

\* if (!message) return false;
\* OPT_IN_KEYWORDS.includes(message.trim().toLowerCase())
isOptInMessage(message) ==
    message # <<>> /\ Includes(OPT_IN_KEYWORDS, ToLowerCase(Trim(message)))

\* What services/message/optout.service exports.
optoutService == {"checkOptOut", "checkContactOptOut", "normalizePhone"}

\* The bodies, senders and receiving numbers of the inbound messages: the
\* sender is always the phone of a contact, written as the provider or the
\* contact may write it.
Bodies == {Body(STOP_WORD, TRUE, FALSE), Body(START_WORD, FALSE, TRUE),
           Body(HELLO_WORD, FALSE, FALSE), Body(STOP_NOW_WORD, FALSE, FALSE)}
FromNumbers == {KnownPhone, <<"5", "5">>}
ToNumbers == {<<"7", "7">>, <<"9", "9">>}

InboundData(i, from, to, body) ==
    [messageSid |-> i, from |-> from, to |-> to, body |-> body, numMedia |-> 0]

\* A message of inbox.inbound.message as the API published it: no
\* x-retry-count header.
InboundMessage(i, data) ==
    [id |-> i, xRetryCount |-> 0, deliveries |-> 0, data |-> data]

IdleInbound == [pc |-> "idle",
                msg |-> InboundMessage(0, InboundData(0, <<>>, <<>>,
                                                      Keyword(HELLO_WORD))),
                began |-> 0, user |-> NULL, contact |-> 0,
                isOptOut |-> FALSE, isOptIn |-> FALSE]

InitInbound ==
    /\ inbound_queue = <<>>
    /\ iw = [p \in Procs |-> IdleInbound]
    /\ contacts_optout = {}
    /\ inbound_log = <<>>
    /\ created = <<>>

\* findUserByNumber: the owner of the first user_numbers row that matches.
findUserByNumber(toNumber) ==
    LET owners == {u \in DOMAIN UserNumbers : FuzzyMatch(UserNumbers[u], toNumber)}
    IN  IF owners = {} THEN NULL ELSE CHOOSE u \in owners : TRUE

\* findOrCreateContact: the contacts rows the select matches.
ExistingContacts(fromNumber) ==
    {c \in DOMAIN contacts :
        /\ contacts[c].exists
        /\ ~contacts[c].deleted
        /\ FuzzyMatch(ContactPhone(c), fromNumber)}

\* saveInboundMessage: the messages row inserted.
InboundRow(data, contact) ==
    [msg_id |-> data.messageSid, status |-> "2", delivery_status |-> "received",
     contact_id |-> contact, is_read |-> 0, is_drip |-> 0,
     message_type |-> IF data.numMedia > 0 THEN 3 ELSE 1]

\* The callback of consume() ends: ch.ack(msg) after the handler returned;
\* after it threw, ch.nack(msg, false, true) while retryCount < 3 (the
\* message returns to the head of its queue, headers unchanged) and
\* ch.nack(msg, false, false) otherwise.
InboundEnd(p, threw) ==
    LET msg == iw[p].msg
        outcome == IF ~threw THEN "acked"
                   ELSE IF RetryCount(msg) < MAX_RETRY_COUNT THEN "requeued"
                   ELSE "dead"
    IN  /\ iw' = [iw EXCEPT ![p] = IdleInbound]
        /\ inbound_queue' = IF outcome = "requeued"
                            THEN <<msg>> \o inbound_queue
                            ELSE inbound_queue
        /\ inbound_log' = Append(inbound_log,
              [id |-> msg.id, data |-> msg.data, began |-> iw[p].began,
               outcome |-> outcome])

\* consume(): the broker delivers the head of the queue and the callback
\* calls handleInboundMessage.
InboundReceive(p) ==
    /\ iw[p].pc = "idle"
    /\ inbound_queue # <<>>
    /\ Head(inbound_queue).deliveries <= MaxRedeliveries
    /\ iw' = [iw EXCEPT ![p] =
                [IdleInbound EXCEPT !.pc = "findUser",
                                    !.msg = [Head(inbound_queue) EXCEPT
                                                !.deliveries = @ + 1],
                                    !.began = Len(inbound_log)]]
    /\ inbound_queue' = Tail(inbound_queue)
    /\ UNCHANGED <<contacts_optout, inbound_log, contacts, messages>>
    /\ UNCHANGED exceptInbound

\* const user = await findUserByNumber(data.to); no user: the handler
\* returns {success: false}.
InboundFindUser(p) ==
    /\ iw[p].pc = "findUser"
    /\ LET user == findUserByNumber(iw[p].msg.data.to)
       IN  IF user = NULL
           THEN InboundEnd(p, FALSE)
           ELSE /\ iw' = [iw EXCEPT ![p].pc = "findContact", ![p].user = user]
                /\ UNCHANGED <<inbound_queue, inbound_log>>
    /\ UNCHANGED <<contacts_optout, contacts, messages>>
    /\ UNCHANGED exceptInbound

\* findOrCreateContact(data.from, ...): the existing contact (every sender
\* here has one), then the keyword checks on data.body.
InboundFindContact(p) ==
    /\ iw[p].pc = "findContact"
    /\ \E c \in ExistingContacts(iw[p].msg.data.from) :
          LET out == isOptOutMessage(iw[p].msg.data.body)
              in == ~out /\ isOptInMessage(iw[p].msg.data.body)
          IN  iw' = [iw EXCEPT ![p].contact = c,
                               ![p].isOptOut = out,
                               ![p].isOptIn = in,
                               ![p].pc = IF out \/ in THEN "optUpdate"
                                         ELSE "insert"]
    /\ UNCHANGED <<inbound_queue, contacts_optout, inbound_log, contacts,
                   messages>>
    /\ UNCHANGED exceptInbound

\* processOptOut / processOptIn: contacts.update({opted_out: 1 or 0})
InboundOptUpdate(p) ==
    /\ iw[p].pc = "optUpdate"
    /\ contacts' = [contacts EXCEPT ![iw[p].contact].opted_out = iw[p].isOptOut]
    /\ iw' = [iw EXCEPT ![p].pc = "optList"]
    /\ UNCHANGED <<inbound_queue, contacts_optout, inbound_log, messages>>
    /\ UNCHANGED exceptInbound

\* processOptOut / processOptIn: await optoutService.addOptOut(contact.phone,
\* userId) or removeOptOut(contact.phone, userId). A service with the
\* function would add or remove the row; calling a member the service does
\* not export throws a TypeError, which handleInboundMessage rethrows.
InboundOptList(p) ==
    /\ iw[p].pc = "optList"
    /\ LET fn == IF iw[p].isOptOut THEN "addOptOut" ELSE "removeOptOut"
           entry == <<iw[p].user, ContactPhone(iw[p].contact)>>
       IN  IF fn \in optoutService
           THEN /\ contacts_optout' = IF iw[p].isOptOut
                                      THEN contacts_optout \cup {entry}
                                      ELSE contacts_optout \ {entry}
                /\ iw' = [iw EXCEPT ![p].pc = "insert"]
                /\ UNCHANGED <<inbound_queue, inbound_log>>
           ELSE /\ InboundEnd(p, TRUE)
                /\ UNCHANGED contacts_optout
    /\ UNCHANGED <<contacts, messages>>
    /\ UNCHANGED exceptInbound

\* saveInboundMessage: dbWriter('messages').insert(messageData)
InboundInsert(p) ==
    /\ iw[p].pc = "insert"
    /\ messages' = Append(messages, InboundRow(iw[p].msg.data, iw[p].contact))
    /\ iw' = [iw EXCEPT ![p].pc = "notify"]
    /\ UNCHANGED <<inbound_queue, contacts_optout, inbound_log, contacts>>
    /\ UNCHANGED exceptInbound

\* The rest of the handler writes none of the columns and queues kept here
\* (last_message, open_chat and archive of the contact, the notifications,
\* the unread count); then it returns {success: true}.
InboundNotify(p) ==
    /\ iw[p].pc = "notify"
    /\ InboundEnd(p, FALSE)
    /\ UNCHANGED <<contacts_optout, contacts, messages>>
    /\ UNCHANGED exceptInbound

\* --------------------------------------------------------- app.js: shutdown

\* CONSUMER_TAG = `drip-consumer-${process.pid}`
CONSUMER_TAG == "drip-consumer"

\* The workers run: the drip consumer is registered, no signal has come.
InitShutdown ==
    /\ consumerTag = CONSUMER_TAG
    /\ sd = "running"

\* preQueueWorker.stop() applied to the worker w.
StopWorker(w) ==
    [w EXCEPT !.timers = @ \ {w.intervalId}, !.intervalId = 0,
              !.isRunning = FALSE]

\* What the steps of shutdown() leave alone, pq and connection aside.
exceptShutdown == <<creditVars, inboxVars, gatewayVars, scheduled_messages,
                    drip_contact, contacts, users, drip_queue, mc, published,
                    drip_calls, cycles, drip_settled, limiterVars, broker,
                    reconnectAttempts, reconnect_timers, failed_connects,
                    drops, statusVars, webhookVars, inboundVars, formatVars,
                    fleetVars, linkVars, createVars>>

\* process.on('SIGINT' / 'SIGTERM'): shutdown(signal) is called;
\* stopQueueMonitor(), then preQueueWorker.stop() up to its return.
Signal ==
    /\ sd = "running"
    /\ sd' = "stopConsumer"
    /\ pq' = StopWorker(pq)
    /\ UNCHANGED <<consumerTag, connection>>
    /\ UNCHANGED exceptShutdown

\* await messageConsumer.stop(): channel.cancel(consumerTag) while connected
\* and registered; consumerTag = null.
StopConsumer ==
    /\ sd = "stopConsumer"
    /\ sd' = "stopOutbound"
    /\ consumerTag' = NULL
    /\ UNCHANGED <<pq, connection>>
    /\ UNCHANGED exceptShutdown

\* await outboundMessageWorker.stop(): await rabbitmq.close(), which closes
\* the channel and the connection and sets both to null.
StopOutbound ==
    /\ sd = "stopOutbound"
    /\ sd' = "stopOthers"
    /\ connection' = "closed"
    /\ UNCHANGED <<pq, consumerTag>>
    /\ UNCHANGED exceptShutdown

\* await inboundMessageWorker.stop(), deliveryReportWorker.stop(),
\* webhookWorker.stop() (each sets its isRunning = false), await
\* rabbitmq.close() (nothing left to close), then process.exit(0).
StopOthers ==
    /\ sd \in {"stopOthers", "stopDelivery", "stopWebhook", "close"}
    /\ sd' = CASE sd = "stopOthers" -> "stopDelivery"
               [] sd = "stopDelivery" -> "stopWebhook"
               [] sd = "stopWebhook" -> "close"
               [] sd = "close" -> "exited"
    /\ UNCHANGED <<pq, consumerTag, connection>>
    /\ UNCHANGED exceptShutdown

\* ------------------------------------------ twilio.service: phone numbers

\* A value handed to formatPhoneNumber or returned by it: a string (the
\* text is its characters) or null.
Str(text) == [type |-> "string", text |-> text]
Null == [type |-> "null", text |-> <<>>]

\* A format that puts the country code before every number.
formatPhoneNumberAlways(phone) ==
    IF phone.type = "null" \/ phone.text = <<>> THEN Null
    ELSE Str(<<PLUS, "1">> \o SelectSeq(phone.text, IsDigit))

\* formatPhoneNumber: null for no phone; else the digits (replace(/\D/g, '')),
\* with '1' before them if they are ten, and '+' before that (the digits
\* never start with '+').
formatPhoneNumber(phone) ==
    IF phone.type = "null" \/ phone.text = <<>> THEN Null
    ELSE LET digits == SelectSeq(phone.text, IsDigit)
             cleaned == IF Len(digits) = 10 THEN <<"1">> \o digits ELSE digits
         IN  Str(<<PLUS>> \o cleaned)

\* No number is being formatted.
InitFormat == fp = [phone |-> Null, out |-> <<>>]

\* formatPhoneNumber applied to the number, then to its own result.
FormatPhone ==
    /\ Len(fp.out) < 2
    /\ fp' = [fp EXCEPT !.out =
                 Append(@, formatPhoneNumber(IF fp.out = <<>> THEN fp.phone
                                             ELSE fp.out[Len(fp.out)]))]
    /\ UNCHANGED exceptFormat

\* ------------------------------------------ app.js: a second instance

\* No second instance of the app runs.
InitFleet == peer = StoppedWorker(BATCH_SIZE)

\* startWorkers of the second instance: HIGH_SCALE_DRIP.ENABLED is all it
\* tests before preQueueWorker.start(), which runs a cycle (up to its select)
\* and then sets the interval.
PeerStart ==
    /\ peer.intervals = 0
    /\ ~peer.isRunning
    /\ \E msgs \in getMessagesReadyForQueue(PRE_QUEUE_MINUTES, peer.batchSize) :
          peer' = RunWorkerCycle(peer, 1, TRUE, msgs)
    /\ UNCHANGED <<scheduled_messages, drip_queue, published>>
    /\ UNCHANGED exceptFleet

\* A timer tick of the second instance: as PqSelect, on its own isRunning.
PeerSelect ==
    /\ peer.timers # {}
    /\ ~peer.isRunning
    /\ \E msgs \in getMessagesReadyForQueue(PRE_QUEUE_MINUTES, peer.batchSize) :
          /\ msgs # <<>>
          /\ peer' = RunWorkerCycle(peer, 1, FALSE, msgs)
    /\ UNCHANGED <<scheduled_messages, drip_queue, published>>
    /\ UNCHANGED exceptFleet

\* pushMessagesToQueue of the second instance: the publish loop.
PeerPublish ==
    /\ peer.run[1].pc = "publish"
    /\ \E ok \in SUBSET Publishable(peer.run[1].messages) :
          LET ids == Published(peer.run[1].messages, ok) IN
          /\ drip_queue' = drip_queue \o [i \in 1..Len(ids) |-> DripPayload(ids[i])]
          /\ published' = [s \in ScheduledIds |->
                              published[s] + (IF s \in ok THEN 1 ELSE 0)]
          /\ peer' = IF ids = <<>> THEN CycleEnd(peer, 1)
                     ELSE [peer EXCEPT !.run[1].pc = "mark",
                                       !.run[1].queuedIds = ids]
    /\ UNCHANGED scheduled_messages
    /\ UNCHANGED exceptFleet

\* markMessagesAsQueued(queuedIds) of the second instance, then its cycle
\* ends.
PeerMark ==
    /\ peer.run[1].pc = "mark"
    /\ scheduled_messages' = markMessagesAsQueued(Range(peer.run[1].queuedIds))
    /\ peer' = CycleEnd(peer, 1)
    /\ UNCHANGED <<drip_queue, published>>
    /\ UNCHANGED exceptFleet

\* ------------------------------------------------- the dispatcher restarts

\* drip.messages is asserted with x-message-ttl of one hour and the drip
\* dead-letter exchange: while no consumer takes the queue's messages the
\* head waits out the hour and the broker moves it to drip.dead_letter.
DripExpire ==
    /\ consumerTag = NULL
    /\ drip_queue # <<>>
    /\ drip_queue' = Tail(drip_queue)
    /\ drip_settled' = [drip_settled EXCEPT !.expired = @ + 1]
    /\ UNCHANGED <<scheduled_messages, drip_contact, contacts, users, pq, mc,
                   published, drip_calls, cycles>>
    /\ UNCHANGED <<creditVars, inboxVars, gatewayVars>>
    /\ UNCHANGED extVars

\* messageConsumer.start(): channel.consume(DRIP_MESSAGES, messageHandler,
\* {consumerTag: CONSUMER_TAG}); consumerTag = result.consumerTag.
StartConsumer ==
    /\ sd = "running"
    /\ consumerTag = NULL
    /\ connection = "open"
    /\ consumerTag' = CONSUMER_TAG
    /\ UNCHANGED <<pq, connection, sd>>
    /\ UNCHANGED exceptShutdown

\* ------------------------------------------ the links to the broker

\* What the variable connection of the earlier steps says of the link the
\* module refers to.
LinkState(ls, cur) == IF cur = 0 THEN "closed" ELSE ls[cur]

\* The links connect() has opened so far.
Made == {n \in LinkIds : links[n] # "none"}

\* The consumer of queue q is on a channel that delivers.
Receives(q) == consumers[q] # 0 /\ links[consumers[q]] = "open"

\* The channel a consumer callback settles its message on: messageHandler
\* of the drip dispatcher calls rabbitmq.getChannel() when the message
\* arrives; the callbacks of rabbitmq.consume() and of the other workers use
\* the channel captured when the consumer was registered.
HandlerChannel(q) == IF q = DRIP_MESSAGES THEN current ELSE consumers[q]

\* The broker delivers a message of queue q to its consumer callback.
LinkDeliver(q) ==
    /\ lh.pc = "idle"
    /\ Receives(q)
    /\ lh' = [pc |-> "busy", queue |-> q, channel |-> HandlerChannel(q),
              delivery |-> consumers[q]]
    /\ UNCHANGED <<links, current, consumers, link_acks>>
    /\ UNCHANGED connVars
    /\ UNCHANGED exceptLink

\* The handler has returned: channel.ack(msg) on the channel the callback
\* holds. On a channel that is no longer open ack throws and nothing is
\* settled.
LinkAck ==
    /\ lh.pc = "busy"
    /\ lh' = IdleLink
    /\ link_acks' = IF links[lh.channel] = "open"
                    THEN link_acks \cup {[queue |-> lh.queue, channel |-> lh.channel,
                                          delivery |-> lh.delivery]}
                    ELSE link_acks
    /\ UNCHANGED <<links, current, consumers>>
    /\ UNCHANGED connVars
    /\ UNCHANGED exceptLink

\* Link n emits 'error' or 'close': connection.on('error') and
\* connection.on('close') each call reconnect(). The module's connection and
\* channel keep referring to the link.
LinkEvent(n, event) ==
    /\ drops < MaxDrops
    /\ IF event = "error"
       THEN links[n] = "open" /\ links' = [links EXCEPT ![n] = "broken"]
       ELSE links[n] \in {"open", "broken"} /\ links' = [links EXCEPT ![n] = "closed"]
    /\ LET c == Reconnect([attempts |-> reconnectAttempts,
                           timers |-> reconnect_timers]) IN
       /\ reconnectAttempts' = c.attempts
       /\ reconnect_timers' = c.timers
    /\ drops' = drops + 1
    /\ connection' = LinkState(links', current)
    /\ UNCHANGED <<current, consumers, lh, link_acks, failed_connects>>
    /\ UNCHANGED exceptLink

\* The setTimeout callback of reconnect(): await connect();
\* reconnectAttempts = 0. A connect() that succeeds opens a new link and
\* points the module's connection and channel at it; it asserts the
\* exchanges and queues and registers no consumer.
LinkTimer(i) ==
    /\ i \in 1..Len(reconnect_timers)
    /\ failed_connects < MaxConnects
    /\ LET rest == [j \in 1..(Len(reconnect_timers) - 1) |->
                      IF j < i THEN reconnect_timers[j]
                      ELSE reconnect_timers[j + 1]] IN
       \E reachable \in BOOLEAN :
        IF reachable
        THEN /\ Made # LinkIds
             /\ LET n == Cardinality(Made) + 1 IN
                /\ links' = [links EXCEPT ![n] = "open"]
                /\ current' = n
             /\ connection' = "open"
             /\ reconnectAttempts' = 0
             /\ reconnect_timers' = rest
             /\ failed_connects' = 0
        ELSE LET c == ConnectFailed([attempts |-> reconnectAttempts,
                                     timers |-> rest]) IN
             /\ UNCHANGED <<links, current, connection>>
             /\ reconnectAttempts' = 0
             /\ reconnect_timers' = c.timers
             /\ failed_connects' = failed_connects + 1
    /\ UNCHANGED <<consumers, lh, link_acks, drops>>
    /\ UNCHANGED exceptLink

\* close(): channel.close(), channel = null, connection.close(),
\* connection = null. The connection emits 'close' when it has closed, and
\* the listener connect() put on it calls reconnect().
LinkClose ==
    /\ current # 0
    /\ links[current] = "open"
    /\ links' = [links EXCEPT ![current] = "closed"]
    /\ current' = 0
    /\ connection' = "closed"
    /\ LET c == Reconnect([attempts |-> reconnectAttempts,
                           timers |-> reconnect_timers]) IN
       /\ reconnectAttempts' = c.attempts
       /\ reconnect_timers' = c.timers
    /\ UNCHANGED <<consumers, lh, link_acks, failed_connects, drops>>
    /\ UNCHANGED exceptLink

\* ------------------------------------ inboundMessageWorker: new contacts

\* A sender no contact row has yet, as the provider writes it and as ten
\* digits.
UnknownPhones ==
    {<<PLUS, "1", "5", "5", "5", "0", "1", "0", "0", "0", "0", "9">>,
     <<"5", "5", "5", "0", "1", "0", "0", "0", "0", "9">>}

\* phone: normalizedFrom.length === 10 ? '+1' + normalizedFrom
\*                                     : '+' + normalizedFrom
NewContactPhone(fromNumber) ==
    IF Len(normalizePhone(fromNumber)) = 10
    THEN <<PLUS, "1">> \o normalizePhone(fromNumber)
    ELSE <<PLUS>> \o normalizePhone(fromNumber)

\* The id of the i-th row findOrCreateContact has inserted.
CreatedId(i) == Cardinality(ContactIds) + i

\* findOrCreateContact: the inserted rows of the user and workspace that the
\* select matches.
CreatedContacts(fromNumber, userId) ==
    {i \in DOMAIN created :
        /\ created[i].user_id = userId
        /\ FuzzyMatch(created[i].phone, fromNumber)}

\* What the handler does once it has its contact: the keyword checks on
\* data.body.
WithContact(h, c) ==
    LET out == isOptOutMessage(h.msg.data.body)
        in == ~out /\ isOptInMessage(h.msg.data.body)
    IN  [h EXCEPT !.contact = c, !.isOptOut = out, !.isOptIn = in,
                  !.pc = IF out \/ in THEN "optUpdate" ELSE "insert"]

\* findOrCreateContact for a sender without a contact row of the table as
\* it was: the select, which finds the first row inserted for the sender or
\* nothing.
InboundSelectContact(p) ==
    /\ iw[p].pc = "findContact"
    /\ ExistingContacts(iw[p].msg.data.from) = {}
    /\ LET found == CreatedContacts(iw[p].msg.data.from, iw[p].user)
       IN  iw' = [iw EXCEPT ![p] =
                    IF found = {} THEN [@ EXCEPT !.pc = "createContact"]
                    ELSE WithContact(@, CreatedId(CHOOSE i \in found :
                                                    \A j \in found : i <= j))]
    /\ UNCHANGED <<inbound_queue, contacts_optout, inbound_log, contacts,
                   messages, created>>
    /\ UNCHANGED exceptCreate

\* findOrCreateContact: the insert. Where the table has a unique key on
\* (user_id, workspace_id, phone) and the row is there already the insert
\* fails, findOrCreateContact returns null and the handler returns
\* {success: false, error: 'Contact error'}; the source holds no schema, so
\* both tables are possible.
InboundCreateContact(p) ==
    /\ iw[p].pc = "createContact"
    /\ LET row == [phone |-> NewContactPhone(iw[p].msg.data.from),
                   user_id |-> iw[p].user]
       IN  \E uniqueKey \in BOOLEAN :
            IF uniqueKey /\ row \in Range(created)
            THEN /\ InboundEnd(p, FALSE)
                 /\ UNCHANGED created
            ELSE /\ created' = Append(created, row)
                 /\ iw' = [iw EXCEPT ![p] = WithContact(@, CreatedId(Len(created) + 1))]
                 /\ UNCHANGED <<inbound_queue, inbound_log>>
    /\ UNCHANGED <<contacts_optout, contacts, messages>>
    /\ UNCHANGED exceptCreate

\* The components outside the core are idle at the start.
InitSvc ==
    /\ InitConnected /\ InitStatus /\ InitWebhook /\ InitInbound
    /\ InitShutdown /\ InitFormat /\ InitFleet

InitExt == InitLimiter /\ InitBroker /\ InitSvc

\* The core tables as the pipeline runs start from, with credits to spend.
InitCore ==
    /\ InitCredits(MaxBalance)
    /\ InitInbox
    /\ InitDrip(ContactOk, UserActive)

\* ---------------------------------------------------------- specifications

\* The credit ledger under concurrent direct calls of deductCredits.
InitLedger ==
    /\ InitExt
    /\ \E b \in 0..MaxBalance : InitCredits(b)
    /\ InitInbox
    /\ InitDrip(ContactOk, UserActive)

NextCredits ==
    \E p \in Procs : CallDeduct(p) \/ DeductStep(p) \/ DeductReturn(p)

SpecCredits == InitLedger /\ [][NextCredits]_vars

\* The inbox.send dispatcher: two handler slots, broker requeues.
InitSend ==
    /\ InitExt
    /\ InitCredits(MaxBalance)
    /\ InitInbox
    /\ InitDrip(ContactOk, UserActive)

NextInbox ==
    \E p \in Procs :
        \/ SendDeliver(p)
        \/ SendTwilio(p)
        \/ SendUpdate(p)
        \/ SendContact(p)
        \/ SendRefund(p)
        \/ SendAck(p)
        \/ SendRequeue(p)

SpecInbox == InitSend /\ [][NextInbox]_vars

\* The drip pipeline: the pre-queue worker, the upstream cancel, two handler
\* slots of the drip dispatcher and the credit ledger they call.
Init ==
    /\ InitExt
    /\ \E b \in 0..MaxBalance : InitCredits(b)
    /\ InitInbox
    /\ \E contact \in ContactRows, user \in UserRows : InitDrip(contact, user)

Next ==
    \/ \E c \in CycleIds : PqSelect(c) \/ PqPublish(c) \/ PqMark(c)
    \/ \E s \in ScheduledIds : Cancel(s)
    \/ \E p \in Procs :
          \/ McDeliver(p)
          \/ McContact(p)
          \/ McUser(p)
          \/ McCredits(p)
          \/ DeductStep(p)
          \/ McDeducted(p)
          \/ McTwilio(p)
          \/ McInsert(p)
          \/ McMarkSent(p)
          \/ McDripSent(p)
          \/ McMarkFailed(p)
          \/ McDripFailed(p)
          \/ McAck(p)

Spec == Init /\ [][Next]_vars

\* The pre-queue worker alone, from before its start(): start and stop calls,
\* timer ticks, the cycles they run, and the upstream cancel.
InitPreQueue ==
    /\ InitExt
    /\ InitCredits(MaxBalance)
    /\ InitInbox
    /\ InitDripTables(ContactOk, UserActive)
    /\ \E batchSize \in 1..NumScheduled : pq = StoppedWorker(batchSize)

NextPreQueue ==
    \/ PqStart
    \/ PqStop
    \/ \E c \in CycleIds : PqSelect(c) \/ PqPublish(c) \/ PqMark(c)
    \/ \E s \in ScheduledIds : Cancel(s)

SpecPreQueue == InitPreQueue /\ [][NextPreQueue]_vars

\* The RateLimiter with its callers and the clock.
InitAcquire == InitCore /\ InitExt

NextLimiter ==
    \/ ClockStep
    \/ \E p \in Procs : Acquire(p) \/ AcquireWake(p)

SpecLimiter == InitAcquire /\ [][NextLimiter]_vars

\* The consumers registered through rabbitmq.consume: the messages of their
\* queues, published with or without a retry header.
InitConsume ==
    /\ InitCore
    /\ InitLimiter
    /\ InitSvc
    /\ \E published_ \in [ConsumeQueues \X MsgIds -> Contents \X RetryHeaders] :
          broker = [q \in Queues |-> [i \in MsgIds |->
                       IF q \in ConsumeQueues
                       THEN ReadyMessage(published_[q, i][1], published_[q, i][2])
                       ELSE ReadyMessage("json", 0)]]

NextConsume ==
    \E q \in ConsumeQueues, i \in MsgIds :
        ConsumeDeliver(q, i) \/ ConsumeAck(q, i) \/ ConsumeNack(q, i)

SpecConsume == InitConsume /\ [][NextConsume]_vars

\* The delivery reconciler and the webhook dispatcher with the messages of
\* their queues.
InitWorkers ==
    /\ InitCore
    /\ InitLimiter
    /\ InitSvc
    /\ \E published_ \in [{STATUS_UPDATE, WEBHOOK} \X MsgIds -> Contents] :
          broker = [q \in Queues |-> [i \in MsgIds |->
                       IF q \in {STATUS_UPDATE, WEBHOOK}
                       THEN ReadyMessage(published_[q, i], 0)
                       ELSE ReadyMessage("json", 0)]]

NextWorkers ==
    \E i \in MsgIds :
        \/ StatusDeliver(i)
        \/ StatusHandled(i)
        \/ WebhookDeliver(i)
        \/ WebhookHandled(i)

\* The drip dispatcher alone: a payload of a Queued row at the head of the
\* queue, behind it another payload or a message that is no payload.
InitDispatch ==
    /\ InitExt
    /\ \E b \in 0..MaxBalance : InitCredits(b)
    /\ InitInbox
    /\ scheduled_messages = [s \in ScheduledIds |->
          [PendingRow EXCEPT !.status = QUEUED, !.queued_at = TRUE]]
    /\ drip_contact = [s \in ScheduledIds |-> NoDripContact]
    /\ \E contact \in ContactRows : contacts = [c \in ContactIds |-> contact]
    /\ \E user \in UserRows : users = [u \in Users |-> user]
    /\ \E second \in {DripPayload(2), NotJson, JsonNull} :
          drip_queue = <<DripPayload(1), second>>
    /\ drip_settled = NoneSettled
    /\ pq = IdleWorker
    /\ mc = [p \in Procs |-> IdleConsumer]
    /\ published = [s \in ScheduledIds |-> 1]
    /\ drip_calls = [s \in ScheduledIds |-> 0]
    /\ cycles = MaxCycles

NextDispatch ==
    \E p \in Procs :
        \/ McDeliver(p)
        \/ McNack(p)
        \/ McThrow(p)
        \/ McContact(p)
        \/ McUser(p)
        \/ McCredits(p)
        \/ DeductStep(p)
        \/ McDeducted(p)
        \/ McTwilio(p)
        \/ McInsert(p)
        \/ McMarkSent(p)
        \/ McDripSent(p)
        \/ McMarkFailed(p)
        \/ McDripFailed(p)
        \/ McAck(p)

SpecDispatch == InitDispatch /\ [][NextDispatch]_vars

SpecWorkers == InitWorkers /\ [][NextWorkers]_vars

\* -------------------------------------------------------- inbox.send claims

InFlight(m) == \E p \in Procs : ow[p].pc # "idle" /\ ow[p].data.messageId = m

Waiting(m) == \E i \in 1..Len(send_queue) : send_queue[i].messageId = m

C3_GatewayCalledOnce ==
    \A m \in InboxIds :
        (messages[m].msg_id # NoSid /\ ~InFlight(m) /\ ~Waiting(m))
            => twilio_calls[m] = 1

\* ------------------------------------------------------ credit ledger claims

RECURSIVE SumAmounts(_, _)
SumAmounts(rows, u) ==
    IF rows = <<>> THEN 0
    ELSE (IF Head(rows).user_id = u THEN Head(rows).amount ELSE 0)
         + SumAmounts(Tail(rows), u)

DebitsOf(u, a) ==
    {i \in 1..Len(credit_transactions) :
        /\ credit_transactions[i].user_id = u
        /\ credit_transactions[i].type = "debit"
        /\ credit_transactions[i].amount = 0 - a}

LedgerQuiescent == \A p \in Procs : trx[p].pc \in {"none", "ok", "err"}

\* C6: at quiescence the balance of every user equals the initial balance
\* plus the sum of the amounts of that user's credit_transactions rows.
C6_BalanceEqualsLedger ==
    LedgerQuiescent =>
        \A u \in Users :
            user_credits[u].balance
                = initial_balance[u] + SumAmounts(credit_transactions, u)

\* C7: the balance is never negative and, for each amount a, no more debits of
\* a are committed than the initial balance pays for (floor(initial / a)).
C7_NoOverdraft ==
    \A u \in Users :
        /\ user_credits[u].balance >= 0
        /\ \A a \in 1..MaxAmount :
              Cardinality(DebitsOf(u, a)) <= initial_balance[u] \div a

\* C8: a deductCredits call that fails ends with an error for its caller, and
\* no step of it changes user_credits (balance, total_spent) or
\* credit_transactions: the only step of a call that writes the tables is the
\* commit, which ends the call successfully. The three failures are a missing
\* row, balance < amount, and an error of a statement of the transaction.
C8_FailedDeductChangesNothing ==
    /\ [][\A p \in Procs :
            /\ (trx'[p] # trx[p] /\ trx'[p].pc # "ok")
                  => UNCHANGED <<user_credits, credit_transactions>>
            /\ (trx[p].pc = "select" /\ trx'[p] # trx[p]
                 /\ (\/ ~user_credits[trx[p].userId].exists
                     \/ user_credits[trx[p].userId].balance < trx[p].amount))
                  => trx'[p].pc = "err"]_vars
    /\ [](\A p \in Procs : trx[p].pc = "err" => trx[p].error # NULL)

\* Two failed calls at once: one refused for balance < amount after another
\* call committed a debit, one whose transaction failed after its UPDATE ran.
C8_Witness ==
    /\ credit_transactions # <<>>
    /\ \E p, q \in Procs :
          /\ trx[p].pc = "err" /\ trx[p].error = "insert failed"
          /\ trx[q].pc = "err" /\ trx[q].error = "Insufficient credits"


\* ------------------------------------------------------ drip pipeline claims

\* The committed drip_sms debits that reference the drip of row s.
DripDebits(s) ==
    Cardinality({i \in 1..Len(credit_transactions) :
        /\ credit_transactions[i].type = "debit"
        /\ credit_transactions[i].reference_type = "drip_sms"
        /\ credit_transactions[i].reference_id = ScheduledDrip(s)})

\* The handlers holding a committed debit for row s that have not yet made
\* their gateway call.
AboutToSend(s) ==
    {p \in Procs :
        /\ mc[p].msgData.scheduledMessageId = s
        /\ \/ mc[p].pc = "twilio"
           \/ mc[p].pc = "deduct" /\ trx[p].pc = "ok"}

\* The ledger row the handler's deductCredits call committed is a debit of
\* SMS_CREDIT_COST for the payload's user.
OwnDebit(p) ==
    /\ mc[p].deductRow \in 1..Len(credit_transactions)
    /\ LET r == credit_transactions[mc[p].deductRow] IN
          /\ r.user_id = mc[p].msgData.userId
          /\ r.type = "debit"
          /\ r.amount = 0 - SMS_CREDIT_COST
          /\ r.reference_type = "drip_sms"
          /\ r.reference_id = mc[p].msgData.dripId

\* A refund row after the handler's debit, of the same amount and reference.
Refunded(p) ==
    \E i \in (mc[p].deductRow + 1)..Len(credit_transactions) :
        /\ credit_transactions[i].type = "refund"
        /\ credit_transactions[i].amount =
              0 - credit_transactions[mc[p].deductRow].amount
        /\ credit_transactions[i].reference_type = "drip_sms"
        /\ credit_transactions[i].reference_id =
              credit_transactions[mc[p].deductRow].reference_id

\* C2: however often a row is published (the Pending->Queued update having
\* failed, a later cycle publishes it again), the dispatcher calls the gateway
\* at most once and commits at most one debit for it.
C2_RepublishIsIdempotent ==
    \A s \in ScheduledIds : drip_calls[s] <= 1 /\ DripDebits(s) <= 1

\* C4: a handler that debited and then ended on the failure path (the row is
\* written Failed) has had its debit refunded, by a refund of the same amount
\* and reference, by the time it returns.
C4_FailedDebitIsRefunded ==
    \A p \in Procs :
        (mc[p].pc = "ack" /\ mc[p].deductRow # 0 /\ ~mc[p].success)
            => Refunded(p)

\* C5: every gateway call is made by a handler holding its own committed debit
\* of 1 for the payload's user, two handlers never hold the same debit, and
\* the debits committed for a row are exactly its gateway calls made or about
\* to be made: the gateway is never called when the debit did not commit.
C5_GatewayOnlyAfterDebit ==
    /\ [](\A s \in ScheduledIds :
             DripDebits(s) = drip_calls[s] + Cardinality(AboutToSend(s)))
    /\ [](\A p, q \in Procs :
             (p # q /\ mc[p].pc = "twilio" /\ mc[q].pc = "twilio")
                 => mc[p].deductRow # mc[q].deductRow)
    /\ [][\A s \in ScheduledIds :
             drip_calls'[s] # drip_calls[s] =>
                 /\ drip_calls'[s] = drip_calls[s] + 1
                 /\ \E p \in Procs :
                       /\ mc[p].pc = "twilio"
                       /\ mc'[p].pc # "twilio"
                       /\ mc[p].msgData.scheduledMessageId = s
                       /\ OwnDebit(p)]_vars

\* One row sent on its one debit, the other refused for want of credits and
\* never sent.
C5_Witness ==
    \E s, t \in ScheduledIds :
        /\ drip_calls[s] = 1 /\ DripDebits(s) = 1
        /\ scheduled_messages[s].status = SENT
        /\ drip_calls[t] = 0 /\ DripDebits(t) = 0
        /\ scheduled_messages[t].status = FAILED
        /\ scheduled_messages[t].error_message = "Insufficient credits"

\* The status changes the scheduled-message state machine allows: forward
\* along Pending, Queued, Sending, Sent, Delivered; Failed from Pending,
\* Queued or Sending; Cancelled from Pending.
OnPath == {PENDING, QUEUED, SENDING, SENT, DELIVERED}

AllowedChange(a, b) ==
    \/ a = b
    \/ a \in OnPath /\ b \in OnPath /\ a < b
    \/ a \in {PENDING, QUEUED, SENDING} /\ b = FAILED
    \/ a = PENDING /\ b = CANCELLED

\* C9: every change of a row's status is one the state machine allows.
C9_StatusMonotone ==
    [][\A s \in ScheduledIds :
          AllowedChange(scheduled_messages[s].status,
                        scheduled_messages'[s].status)]_vars

\* C10: no step changes a Queued row back to Pending.
C10_QueuedNeverPending ==
    [][\A s \in ScheduledIds :
          scheduled_messages[s].status = QUEUED
              => scheduled_messages'[s].status # PENDING]_vars

\* Two rows that were Queued and have since been written by the dispatcher,
\* one Sent and one Failed.
C10_Witness ==
    \E s, t \in ScheduledIds :
        /\ scheduled_messages[s].queued_at /\ scheduled_messages[s].status = SENT
        /\ scheduled_messages[t].queued_at /\ scheduled_messages[t].status = FAILED
        /\ scheduled_messages[t].retry_count = 1

\* C11: on the path Pending < Queued < Sending < Sent < Delivered, queued_at
\* is set exactly on the rows at or past Queued and sent_at exactly on the
\* rows at or past Sent.
C11_TimestampsFollowStatus ==
    \A s \in ScheduledIds :
        scheduled_messages[s].status \in OnPath =>
            /\ scheduled_messages[s].queued_at
                  <=> scheduled_messages[s].status >= QUEUED
            /\ scheduled_messages[s].sent_at
                  <=> scheduled_messages[s].status >= SENT

\* C12: every Sent row's message_id references an existing messages row that
\* has a provider message id and is_drip = 1.
C12_SentHasMessageRow ==
    \A s \in ScheduledIds :
        scheduled_messages[s].status = SENT =>
            /\ scheduled_messages[s].message_id \in 1..Len(messages)
            /\ messages[scheduled_messages[s].message_id].msg_id # NoSid
            /\ messages[scheduled_messages[s].message_id].is_drip = 1

\* ---------------------------------------------------- pre-queue worker claims

\* Invocation c of runWorkerCycle takes the named step.
PublishStep(c) == pq.run[c].pc = "publish" /\ pq'.run[c].pc # "publish"
MarkStep(c) == pq.run[c].pc = "mark" /\ pq'.run[c].pc = "idle"
SelectStep(c) == pq.run[c].pc = "idle" /\ pq'.run[c].pc = "publish"

\* C13: only rows whose publish returned true are collected and moved from
\* Pending to Queued; a row whose publish never returned true stays Pending
\* (unless cancelled) with queued_at unset, and the lowest Pending row is
\* selected again by the next cycle.
C13_OnlyPublishedAreQueued ==
    /\ [](\A s \in ScheduledIds :
             published[s] = 0 =>
                 /\ scheduled_messages[s].status \in {PENDING, CANCELLED}
                 /\ ~scheduled_messages[s].queued_at)
    /\ [][\A c \in CycleIds : PublishStep(c) =>
             \A s \in Range(pq.run[c].messages) :
                 published'[s] = published[s] =>
                     /\ s \notin Range(pq'.run[c].queuedIds)
                     /\ scheduled_messages'[s] = scheduled_messages[s]]_vars
    /\ [][\A s \in ScheduledIds :
             (scheduled_messages[s].status = PENDING
                 /\ scheduled_messages'[s].status = QUEUED) =>
                 \E c \in CycleIds :
                     MarkStep(c) /\ s \in Range(pq.run[c].queuedIds)]_vars
    /\ [][\A c \in CycleIds : SelectStep(c) =>
             \A s \in ScheduledIds :
                 (/\ scheduled_messages[s].status = PENDING
                  /\ \A t \in 1..(s - 1) : scheduled_messages[t].status # PENDING)
                     => s \in Range(pq'.run[c].messages)]_vars

\* Row 1 was published after row 2: its publish returned false in the cycle
\* that published row 2, it stayed Pending, and a later cycle published and
\* queued it.
C13_Witness ==
    /\ drip_queue = <<DripPayload(2), DripPayload(1)>>
    /\ \A s \in {1, 2} :
          scheduled_messages[s].status = QUEUED /\ scheduled_messages[s].queued_at

\* C14: the batch update of a cycle leaves every row that is no longer
\* Pending as it is (status and queued_at), and, unless the update fails as a
\* whole, moves every collected row that is still Pending to Queued.
C14_CancelledNotClobbered ==
    [][\A c \in CycleIds : MarkStep(c) =>
          \/ scheduled_messages' = scheduled_messages
          \/ \A s \in ScheduledIds :
                IF s \in Range(pq.run[c].queuedIds)
                   /\ scheduled_messages[s].status = PENDING
                THEN scheduled_messages'[s] =
                        [scheduled_messages[s] EXCEPT !.status = QUEUED,
                                                      !.queued_at = TRUE]
                ELSE scheduled_messages'[s] = scheduled_messages[s]]_vars

\* One cycle collected rows 1 and 2; row 1 was cancelled before the batch
\* update and is still Cancelled with no queued_at, row 2 is Queued.
C14_Witness ==
    /\ cycles = 1
    /\ published[1] = 1 /\ published[2] = 1
    /\ scheduled_messages[1].status = CANCELLED
    /\ ~scheduled_messages[1].queued_at
    /\ scheduled_messages[2].status = QUEUED
    /\ \A c \in CycleIds : pq.run[c].pc = "idle"

\* C15: at most one invocation of runWorkerCycle is between its select and
\* the end of its batch update.
C15_OneCycleAtATime ==
    Cardinality({c \in CycleIds : pq.run[c].pc # "idle"}) <= 1

\* ----------------------------------------------------------- limiter claims

\* C16: in any window, from one completed acquire() to a later one, the
\* acquisitions number at most burst + rate * (length of the window); counted
\* in parts of a token.
C16_RateBound ==
    \A i, j \in DOMAIN acquired :
        i <= j =>
            TokenScale * (j - i + 1)
                <= TokenScale * MaxTokens + (acquired[j] - acquired[i])

\* C17: 0 <= tokens <= maxTokens.
C17_TokensInRange ==
    /\ rate_limiter.tokens >= 0
    /\ rate_limiter.tokens <= MaxTokens * TokenScale

\* ---------------------------------------------------------- consumer claims

\* C18: a message published without a retry header is delivered at most 3
\* times (every redelivery follows a failed delivery; the third failure
\* rejects it without requeue).
C18_AtMostThreeDeliveries ==
    \A q \in ConsumeQueues, i \in MsgIds :
        broker[q][i].xRetryCount = 0 =>
            broker[q][i].deliveries <= MAX_RETRY_COUNT

AckQueues == {STATUS_UPDATE, WEBHOOK}

\* C20: the delivery reconciler and the webhook dispatcher settle every
\* message exactly once and never requeue it; a message that parses is acked,
\* whether its handler succeeded, reported failure or threw.
C20_WorkersAlwaysAck ==
    /\ [](\A q \in AckQueues, i \in MsgIds :
             LET msg == broker[q][i] IN
             /\ msg.requeues = 0
             /\ msg.deliveries <= 1
             /\ msg.acks + msg.nacks <= 1
             /\ msg.state \in {"acked", "dead"} <=> msg.acks + msg.nacks = 1
             /\ msg.content = "json" => msg.nacks = 0)
    /\ [][\A q \in AckQueues, i \in MsgIds :
             (broker[q][i].state = "unacked" /\ broker'[q][i] # broker[q][i])
                 => /\ broker'[q][i].state = "acked"
                    /\ broker'[q][i].acks = 1]_vars

\* A status update whose handler threw and a webhook message whose handler
\* reported failure, each acked once; a status update that did not parse,
\* rejected.
C20_Witness ==
    /\ broker[STATUS_UPDATE][1].outcome = "threw"
    /\ broker[STATUS_UPDATE][1].state = "acked"
    /\ broker[STATUS_UPDATE][1].acks = 1
    /\ broker[WEBHOOK][1].outcome = "failed"
    /\ broker[WEBHOOK][1].state = "acked"
    /\ broker[WEBHOOK][1].acks = 1
    /\ broker[STATUS_UPDATE][2].content = "not json"
    /\ broker[STATUS_UPDATE][2].state = "dead"

\* --------------------------------------------------- drip dispatcher settle

\* Handler slot p finishes its message in this step.
Finishes(p) == mc[p].pc # "idle" /\ mc'[p].pc = "idle"

InitReconnect ==
    /\ InitCore
    /\ InitLimiter /\ InitBroker
    /\ InitConn /\ InitStatus /\ InitWebhook /\ InitInbound /\ InitShutdown
    /\ InitFormat /\ InitFleet

NextReconnect ==
    \/ Connect
    \/ ConnectionEvent
    \/ \E i \in 1..(MaxDrops + 1) : ReconnectTimer(i)

SpecReconnect == InitReconnect /\ [][NextReconnect]_vars

\* C21: while the broker stays unreachable, at most MAX_RECONNECT_ATTEMPTS
\* connects are attempted in a row, and reconnectAttempts returns to 0 only
\* in a step whose connect succeeded.
C21_ReconnectBounded ==
    /\ [](failed_connects <= MAX_RECONNECT_ATTEMPTS)
    /\ [][(reconnectAttempts # 0 /\ reconnectAttempts' = 0) => connection' = "open"]_vars

\* ------------------------------------------ drip dispatcher: failed checks

\* The reasons of the contact, user and credit checks of processMessage.
CheckErrors ==
    {"Contact not found or deleted", "Contact opted out or blocked",
     "User not found", "User messaging disabled", "Insufficient credits"}

\* The reason the tables call for: the first check that fails, in the order
\* of processMessage; past the contact and user checks it is the credits.
ExpectedError(msgData) ==
    LET contact == contacts[msgData.contactId]
        user == users[msgData.userId]
    IN  IF ~contact.exists \/ contact.deleted THEN "Contact not found or deleted"
        ELSE IF contact.opted_out \/ contact.is_block
        THEN "Contact opted out or blocked"
        ELSE IF ~user.exists THEN "User not found"
        ELSE IF user.messaging_status # 1 THEN "User messaging disabled"
        ELSE "Insufficient credits"

\* Handler p is on the failure path of one of the three checks.
FailedCheck(p) ==
    /\ mc[p].pc \in {"markFailed", "dripFailed", "ack"}
    /\ mc[p].error \in CheckErrors

\* C22: a delivery whose contact, user or credit check fails makes no gateway
\* call, no debit and no messages row, leaves the balance and the audit rows
\* as they are, marks its row Failed with the reason of the check
\* ("Insufficient credits" when the balance is 0) and is acked.
C22_FailedCheckIsInert ==
    /\ [](\A p \in Procs : FailedCheck(p) =>
            LET s == mc[p].msgData.scheduledMessageId IN
            /\ mc[p].error = ExpectedError(mc[p].msgData)
            /\ mc[p].twilioResult = NoResult
            /\ mc[p].deductRow = 0
            /\ mc[p].createdMessage = 0
            /\ drip_calls[s] = 0
            /\ DripDebits(s) = 0
            /\ mc[p].pc \in {"dripFailed", "ack"} =>
                  /\ scheduled_messages[s].status = FAILED
                  /\ scheduled_messages[s].error_message = mc[p].error)
    /\ [][\A p \in Procs : (FailedCheck(p) /\ mc'[p] # mc[p]) =>
            /\ user_credits' = user_credits
            /\ credit_transactions' = credit_transactions
            /\ messages' = messages
            /\ drip_calls' = drip_calls
            /\ mc'[p].pc = "idle" =>
                  drip_settled' = [drip_settled EXCEPT !.acked = @ + 1]]_vars

C22_Witness ==
    \E p \in Procs :
        /\ FailedCheck(p)
        /\ mc[p].pc = "ack"
        /\ mc[p].error = "Insufficient credits"
        /\ initial_balance[mc[p].msgData.userId] = 0
        /\ user_credits[mc[p].msgData.userId].balance = 0
        /\ credit_transactions = <<>>
        /\ scheduled_messages[mc[p].msgData.scheduledMessageId].status = FAILED

\* C23: when the dispatcher has marked a row Failed for a payload that carries
\* a dripContactId, the DripContact is Failed (3) with the same reason by the
\* time the message is acked.
C23_DripContactFollowsFailure ==
    \A p \in Procs :
        (/\ mc[p].pc = "ack"
         /\ mc[p].error # NULL
         /\ mc[p].msgData.dripContactId \in DOMAIN drip_contact)
            => /\ drip_contact[mc[p].msgData.dripContactId].status = 3
               /\ drip_contact[mc[p].msgData.dripContactId].error_message
                     = mc[p].error

\* ------------------------------------------------------ load-test payloads

\* Load-test payloads at the head of both queues: one for inbox.send, and
\* one for the drip dispatcher with an ordinary payload behind it.
InitLoadTest ==
    /\ InitExt
    /\ \E b \in 0..MaxBalance : InitCredits(b)
    /\ messages = [m \in InboxIds |-> QueuedRow]
    /\ send_queue = <<[SendPayload(1) EXCEPT !.isLoadTest = TRUE]>>
    /\ ow = [p \in Procs |-> IdleHandler]
    /\ send_acks = [m \in InboxIds |-> 0]
    /\ twilio_calls = [m \in InboxIds |-> 0]
    /\ twilio_sids = 0
    /\ requeues = 0
    /\ scheduled_messages = [s \in ScheduledIds |->
          [PendingRow EXCEPT !.status = QUEUED, !.queued_at = TRUE]]
    /\ drip_contact = [s \in ScheduledIds |-> NoDripContact]
    /\ contacts = [c \in ContactIds |-> ContactOk]
    /\ users = [u \in Users |-> UserActive]
    /\ drip_queue = <<[DripPayload(1) EXCEPT !.isLoadTest = TRUE],
                      DripPayload(2)>>
    /\ drip_settled = NoneSettled
    /\ pq = IdleWorker
    /\ mc = [p \in Procs |-> IdleConsumer]
    /\ published = [s \in ScheduledIds |-> 1]
    /\ drip_calls = [s \in ScheduledIds |-> 0]
    /\ cycles = MaxCycles

NextLoadTest ==
    \E p \in Procs :
        \/ SendDeliver(p)
        \/ SendLoadTest(p)
        \/ SendAck(p)
        \/ McDeliver(p)
        \/ McContact(p)
        \/ McUser(p)
        \/ McCredits(p)
        \/ DeductStep(p)
        \/ McDeducted(p)
        \/ McTwilio(p)
        \/ McInsert(p)
        \/ McMarkSent(p)
        \/ McDripSent(p)
        \/ McMarkFailed(p)
        \/ McDripFailed(p)
        \/ McAck(p)

SpecLoadTest == InitLoadTest /\ [][NextLoadTest]_vars

\* The handler of slot p is working on a load-test payload.
LoadTestSend(p) == ow[p].pc # "idle" /\ ow[p].data.isLoadTest
LoadTestDrip(p) == mc[p].pc # "idle" /\ mc[p].msgData.isLoadTest

\* C24: no step of a handler that works on a load-test payload, in the
\* inbox.send handler or in the drip dispatcher, calls the gateway, changes
\* the balance or the audit rows, or writes messages or scheduled_messages;
\* the handler sleeps and its message is acked.
C24_LoadTestIsInert ==
    /\ [][\A p \in Procs :
            (LoadTestSend(p) /\ ow'[p] # ow[p]) =>
                /\ twilio_calls' = twilio_calls
                /\ UNCHANGED <<user_credits, credit_transactions, messages>>
                /\ ow'[p].pc \in {"ack", "idle"}
                /\ ow'[p].pc = "idle" =>
                      send_acks'[ow[p].data.messageId]
                          = send_acks[ow[p].data.messageId] + 1]_vars
    /\ [][\A p \in Procs :
            (LoadTestDrip(p) /\ (mc'[p] # mc[p] \/ trx'[p] # trx[p])) =>
                /\ drip_calls' = drip_calls
                /\ UNCHANGED <<user_credits, credit_transactions, messages,
                               scheduled_messages>>
                /\ mc'[p].pc = "idle" =>
                      drip_settled'.acked = drip_settled.acked + 1]_vars

\* ---------------------------------------------- the pre-queue select alone

\* Rows of every status a cycle may meet, scheduled in the past, now, at the
\* end of the lead window and a minute beyond it.
SelectRows ==
    {[PendingRow EXCEPT !.status = st, !.scheduled_at = t,
                        !.queued_at = (st = QUEUED)] :
        st \in {PENDING, QUEUED, CANCELLED},
        t \in {now - 1, now, now + PRE_QUEUE_MINUTES, now + PRE_QUEUE_MINUTES + 1}}

InitSelect ==
    /\ InitExt
    /\ InitCredits(MaxBalance)
    /\ InitInbox
    /\ scheduled_messages \in [ScheduledIds -> SelectRows]
    /\ drip_contact = [s \in ScheduledIds |-> NoDripContact]
    /\ contacts = [c \in ContactIds |-> ContactOk]
    /\ users = [u \in Users |-> UserActive]
    /\ drip_queue = <<>>
    /\ drip_settled = NoneSettled
    /\ \E batchSize \in 1..NumScheduled :
          pq = SetInterval(StoppedWorker(batchSize))
    /\ mc = [p \in Procs |-> IdleConsumer]
    /\ published = [s \in ScheduledIds |->
                       IF scheduled_messages[s].status = QUEUED THEN 1 ELSE 0]
    /\ drip_calls = [s \in ScheduledIds |-> 0]
    /\ cycles = 0

NextSelect ==
    \E c \in CycleIds : PqSelect(c) \/ PqPublish(c) \/ PqMark(c)

SpecSelect == InitSelect /\ [][NextSelect]_vars

\* C26: a cycle's select returns Pending rows with scheduled_at <= now + lead
\* only, as many as there are up to the batch size, in rising scheduled_at,
\* and no row it leaves behind is due earlier than one it takes.
C26_SelectsEarliestDue ==
    [][cycles' = cycles + 1 =>
        LET c == cycles'
            sel == IF pq'.run[c].pc = "publish" THEN pq'.run[c].messages
                   ELSE <<>>
            due == {i \in ScheduledIds :
                      /\ scheduled_messages[i].status = PENDING
                      /\ scheduled_messages[i].scheduled_at
                            <= now + PRE_QUEUE_MINUTES}
        IN  /\ Range(sel) \subseteq due
            /\ Cardinality(Range(sel)) = Len(sel)
            /\ Len(sel) = Min(pq.batchSize, Cardinality(due))
            /\ \A j, k \in DOMAIN sel : j < k =>
                  scheduled_messages[sel[j]].scheduled_at
                      <= scheduled_messages[sel[k]].scheduled_at
            /\ \A i \in Range(sel), j \in due \ Range(sel) :
                  scheduled_messages[i].scheduled_at
                      <= scheduled_messages[j].scheduled_at]_vars

\* A batch of one took the row due now and left the row due at the end of
\* the lead window.
C26_Witness ==
    \E c \in CycleIds : \E i, j \in ScheduledIds :
        /\ pq.run[c].pc = "publish"
        /\ pq.batchSize = 1
        /\ pq.run[c].messages = <<i>>
        /\ scheduled_messages[i].scheduled_at = now
        /\ i # j
        /\ scheduled_messages[j].status = PENDING
        /\ scheduled_messages[j].scheduled_at = now + PRE_QUEUE_MINUTES

\* ------------------------------------------------------- the happy path

\* One Pending row due within the lead window (the other row is cancelled),
\* a valid contact, an active user with a balance of at least 1.
InitHappy ==
    /\ InitExt
    /\ \E b \in 1..MaxBalance : InitCredits(b)
    /\ InitInbox
    /\ scheduled_messages = [s \in ScheduledIds |->
          IF s = 1 THEN EnrolledRow(s)
          ELSE [EnrolledRow(s) EXCEPT !.status = CANCELLED]]
    /\ drip_contact = [s \in ScheduledIds |-> NoDripContact]
    /\ contacts = [c \in ContactIds |-> ContactOk]
    /\ users = [u \in Users |-> UserActive]
    /\ drip_queue = <<>>
    /\ drip_settled = NoneSettled
    /\ pq = IdleWorker
    /\ mc = [p \in Procs |-> IdleConsumer]
    /\ published = [s \in ScheduledIds |-> 0]
    /\ drip_calls = [s \in ScheduledIds |-> 0]
    /\ cycles = 0

\* The steps of the pipeline in which nothing fails: every publish returns
\* true, the batch update and the insert succeed, the gateway accepts.
HappyPublish(c) ==
    /\ PqPublish(c)
    /\ \A s \in Range(pq.run[c].messages) : published'[s] = published[s] + 1

HappyMark(c) ==
    /\ PqMark(c)
    /\ scheduled_messages' = markMessagesAsQueued(Range(pq.run[c].queuedIds))

HappyTwilio(p) == McTwilio(p) /\ mc'[p].twilioResult.success

HappyInsert(p) == McInsert(p) /\ mc'[p].createdMessage # 0

NextHappy ==
    \/ \E c \in CycleIds : PqSelect(c) \/ HappyPublish(c) \/ HappyMark(c)
    \/ \E p \in Procs :
          \/ McDeliver(p)
          \/ McContact(p)
          \/ McUser(p)
          \/ McCredits(p)
          \/ DeductSelect(p)
          \/ DeductUpdate(p)
          \/ DeductInsert(p)
          \/ DeductCommit(p)
          \/ McDeducted(p)
          \/ HappyTwilio(p)
          \/ HappyInsert(p)
          \/ McMarkSent(p)
          \/ McDripSent(p)
          \/ McAck(p)

SpecHappy == InitHappy /\ [][NextHappy]_vars

\* The pipeline has finished with row s: its message is acked, no handler and
\* no cycle is at work.
HappyDone ==
    /\ drip_settled.acked = 1
    /\ \A p \in Procs : mc[p].pc = "idle"
    /\ ~pq.isRunning

\* What the happy path leaves behind apart from the row's passage through
\* Queued: one published message, the row Sent, one gateway call, one
\* messages row with the provider id and is_drip = 1, one debit of 1, the
\* DripContact Sent.
HappyOutcome(s) ==
    /\ published[s] = 1
    /\ drip_queue = <<>>
    /\ scheduled_messages[s].status = SENT
    /\ scheduled_messages[s].sent_at
    /\ drip_calls[s] = 1
    /\ scheduled_messages[s].msg_id # NoSid
    /\ scheduled_messages[s].message_id \in DOMAIN messages
    /\ messages[scheduled_messages[s].message_id] =
          DripMessageRow(scheduled_messages[s].msg_id)
    /\ Cardinality({i \in DOMAIN messages : messages[i].is_drip = 1}) = 1
    /\ user_credits[ScheduledUser(s)].balance =
          initial_balance[ScheduledUser(s)] - 1
    /\ Len(credit_transactions) = 1
    /\ DripDebits(s) = 1
    /\ drip_contact[ScheduledDripContact(s)].status = 1

\* C25: the happy path ends with one published message, the row Queued and
\* then Sent, one gateway call, one messages row with the provider id and
\* is_drip = 1, the balance down by exactly 1 with one debit row, and the
\* DripContact Sent.
C25_HappyPath ==
    /\ [](HappyDone => (HappyOutcome(1) /\ scheduled_messages[1].queued_at))
    /\ [][scheduled_messages'[1].status = SENT
             => scheduled_messages[1].status \in {QUEUED, SENT}]_vars

\* The same without the passage through Queued.
C25_HappyOutcomeHolds == HappyDone => HappyOutcome(1)

\* ------------------------------------------------- status callbacks alone

\* Two messages, each sent (a SID, status 1) or failed at the gateway (no
\* SID, status 3), and two callbacks in the queue.
SentRows ==
    {[m \in InboxIds |-> IF m \in sent
                         THEN UpdateData(QueuedRow, [success |-> TRUE, sid |-> m])
                         ELSE UpdateData(QueuedRow, NoResult)] :
        sent \in SUBSET InboxIds}

InitCallbacks ==
    /\ InitLimiter /\ InitBroker /\ InitConnected /\ InitWebhook /\ InitInbound
    /\ InitShutdown /\ InitFormat /\ InitFleet
    /\ InitCredits(MaxBalance)
    /\ InitDrip(ContactOk, UserActive)
    /\ messages \in SentRows
    /\ send_queue = <<>>
    /\ ow = [p \in Procs |-> IdleHandler]
    /\ send_acks = [m \in InboxIds |-> 1]
    /\ twilio_calls = [m \in InboxIds |-> 1]
    /\ twilio_sids = NumInbox
    /\ requeues = 0
    /\ status_queue \in [1..2 -> StatusPayloads]
    /\ sw = [p \in Procs |-> IdleStatus]

NextCallbacks ==
    \E p \in Procs : StatusReceive(p) \/ StatusFind(p) \/ StatusUpdate(p)

SpecCallbacks == InitCallbacks /\ [][NextCallbacks]_vars

\* C27: the update of a found message writes the coarse and textual status
\* of the table for the seven provider statuses it lists, and for any other
\* provider status writes the textual status only and leaves the coarse
\* status as it was.
C27_StatusTable ==
    [][\A p \in Procs : (sw[p].pc = "update" /\ sw'[p].pc = "idle") =>
        LET st == sw[p].data.status
            old == messages[sw[p].message]
            new == messages'[sw[p].message]
            coarse == [queued |-> "0", sending |-> "1", sent |-> "1",
                       delivered |-> "2", undelivered |-> "4",
                       failed |-> "3", read |-> "2"]
        IN  /\ new.delivery_status = st
            /\ new.status = IF st \in DOMAIN coarse THEN coarse[st]
                            ELSE old.status]_vars

\* A message that had failed at the gateway (coarse status 3) took a callback
\* with a status outside the table, and the other message an undelivered.
C27_Witness ==
    \E m, n \in InboxIds :
        /\ messages[m].delivery_status = "accepted"
        /\ messages[m].status = "3"
        /\ messages[n].delivery_status = "undelivered"
        /\ messages[n].status = "4"

\* ----------------------------------------------- webhook dispatcher alone

\* Jobs of pending deliveries in the dispatcher's queue, for one webhook or
\* for two.
InitWebhookDispatch ==
    /\ InitLimiter /\ InitBroker /\ InitConnected /\ InitStatus /\ InitInbound
    /\ InitShutdown /\ InitFormat /\ InitFleet
    /\ InitCore
    /\ webhooks = [w \in WebhookIds |->
                     WebhookRow("active", {"message.inbound"}, TRUE)]
    /\ \E target \in [1..NumJobs -> WebhookIds] :
          /\ webhook_deliveries =
                [d \in 1..NumJobs |->
                    PendingDelivery(target[d], "message.inbound")]
          /\ webhook_queue = [d \in 1..NumJobs |-> DispatchJob(d, target[d])]
    /\ wd = [p \in Procs |-> IdleDispatcher]
    /\ streak = [w \in WebhookIds |-> 0]
    /\ overlapped = FALSE
    /\ wp = IdleProducer
    /\ unroutable = 0

NextWebhookDispatch ==
    \E p \in Procs :
        \/ WebhookReceive(p)
        \/ WebhookPost(p)
        \/ WebhookUpdateDelivery(p)
        \/ WebhookUpdateStats(p)

SpecWebhookDispatch == InitWebhookDispatch /\ [][NextWebhookDispatch]_vars

\* The handler of slot p ends its attempt in this step.
AttemptEnds(p) == wd[p].pc \in {"delivery", "webhook"} /\ wd'[p].pc = "idle"

\* C28: when an attempt ends its delivery row is success (2xx) or failed, no
\* longer pending, and the attempt has set failure_count to 0 on success or
\* added exactly 1 on failure; with the attempts made one at a time
\* failure_count is the number of failures since the last success.
C28_AttemptIsRecorded ==
    /\ [][\A p \in Procs : AttemptEnds(p) =>
            /\ webhook_deliveries'[wd[p].job.deliveryId].status =
                  IF wd[p].result.success THEN "success" ELSE "failed"
            /\ webhooks'[wd[p].job.webhookId].failure_count =
                  IF wd[p].result.success THEN 0
                  ELSE webhooks[wd[p].job.webhookId].failure_count + 1]_vars
    /\ []((~overlapped /\ \A p \in Procs : wd[p].pc = "idle") =>
            \A w \in WebhookIds : webhooks[w].failure_count = streak[w])

\* ------------------------------------------------- webhook producer alone

\* Webhooks active or not, subscribed to one event type, the other or both,
\* of the event's user and workspace or of another.
WebhookRows ==
    {WebhookRow(st, ev, mine) :
        st \in {"active", "inactive"},
        ev \in {{"message.inbound"}, {"message.delivered"}, EventTypes},
        mine \in BOOLEAN}

InitWebhookProduce ==
    /\ InitLimiter /\ InitBroker /\ InitConnected /\ InitStatus /\ InitInbound
    /\ InitShutdown /\ InitFormat /\ InitFleet
    /\ InitCore
    /\ webhooks \in [WebhookIds -> WebhookRows]
    /\ webhook_deliveries = <<>>
    /\ webhook_queue = <<>>
    /\ wd = [p \in Procs |-> IdleDispatcher]
    /\ streak = [w \in WebhookIds |-> 0]
    /\ overlapped = FALSE
    /\ wp = IdleProducer
    /\ unroutable = 0

NextWebhookProduce == ProduceEvent \/ ProduceDelivery \/ ProducePublish

SpecWebhookProduce == InitWebhookProduce /\ [][NextWebhookProduce]_vars

\* C29: when queueWebhookEvent has returned, every active webhook of the
\* event's user and workspace that is subscribed to the event type has
\* exactly one pending delivery row and exactly one job in the queue the
\* dispatcher consumes, and no other webhook has either.
C29_OneJobPerSubscriber ==
    (wp.pc = "idle" /\ wp.calls > 0) =>
        \A w \in WebhookIds :
            LET n == IF /\ webhooks[w].mine
                        /\ webhooks[w].status = "active"
                        /\ wp.eventType \in webhooks[w].events
                     THEN 1 ELSE 0
            IN  /\ Cardinality({d \in DOMAIN webhook_deliveries :
                       /\ webhook_deliveries[d].webhook_id = w
                       /\ webhook_deliveries[d].status = "pending"}) = n
                /\ Cardinality({j \in DOMAIN webhook_queue :
                       webhook_queue[j].webhookId = w}) = n


\* ------------------------------------------------- the inbound worker

InboundPayloads ==
    {InboundData(0, from, to, body) :
        from \in FromNumbers, to \in ToNumbers, body \in Bodies}

\* Two inbound messages wait in the queue; the contact may have opted out
\* before.
InitInboundRun ==
    /\ InitLimiter /\ InitBroker /\ InitConnected /\ InitStatus /\ InitWebhook
    /\ InitShutdown /\ InitFormat /\ InitFleet
    /\ InitCredits(MaxBalance)
    /\ InitInbox
    /\ \E contact \in {ContactOk, [ContactOk EXCEPT !.opted_out = TRUE]} :
          InitDrip(contact, UserActive)
    /\ \E d \in [1..2 -> InboundPayloads] :
          inbound_queue =
              [i \in 1..2 |-> InboundMessage(i, [d[i] EXCEPT !.messageSid = i])]
    /\ iw = [p \in Procs |-> IdleInbound]
    /\ contacts_optout = {}
    /\ inbound_log = <<>>
    /\ created = <<>>

NextInbound ==
    \E p \in Procs :
        \/ InboundReceive(p)
        \/ InboundFindUser(p)
        \/ InboundFindContact(p)
        \/ InboundOptUpdate(p)
        \/ InboundOptList(p)
        \/ InboundInsert(p)
        \/ InboundNotify(p)

SpecInbound == InitInboundRun /\ [][NextInbound]_vars

\* The callbacks that ended were the first n messages of the queue, one
\* after the other, each from the known contact to the user's number.
InOrder(n) ==
    /\ Len(inbound_log) = n
    /\ \A p \in Procs : iw[p].pc = "idle"
    /\ \A i \in 1..n :
          /\ inbound_log[i].id = i
          /\ inbound_log[i].began = i - 1
          /\ findUserByNumber(inbound_log[i].data.to) # NULL

\* The inbound messages rows saved for message i.
SavedRows(i) ==
    {m \in DOMAIN messages :
        /\ messages[m].delivery_status = "received"
        /\ messages[m].msg_id = i}

SavedAndAcked(i) ==
    /\ Cardinality(SavedRows(i)) = 1
    /\ inbound_log[i].outcome = "acked"

OptOutEntry(c) == <<"u1", ContactPhone(c)>>

\* C30: after an inbound STOP from a known contact alone, the contact has
\* opted_out = 1 and the deny-list holds its (user, phone) entry; after the
\* STOP and then an inbound start, opted_out = 0 and the entry is gone; each
\* of the messages is saved as one inbound messages row and acked.
C30_OptOutRoundTrip ==
    \A c \in ContactIds :
        /\ (InOrder(1) /\ isOptOutMessage(inbound_log[1].data.body)) =>
              /\ contacts[c].opted_out
              /\ OptOutEntry(c) \in contacts_optout
              /\ SavedAndAcked(1)
        /\ (/\ InOrder(2)
            /\ isOptOutMessage(inbound_log[1].data.body)
            /\ isOptInMessage(inbound_log[2].data.body)) =>
              /\ ~contacts[c].opted_out
              /\ OptOutEntry(c) \notin contacts_optout
              /\ SavedAndAcked(1)
              /\ SavedAndAcked(2)

\* ------------------------------------------------- the keyword checks

\* The words the bodies are made of: every keyword, and words that are no
\* keyword: one that is none, ones that contain a keyword or are contained
\* in one, and the empty word.
OtherWords == {HELLO_WORD, STOP_NOW_WORD, <<"u", "n", SPACE>> \o STOP_WORD,
               STOP_WORD \o <<"p">>, <<"s", "t">>, <<"y", "e">>, <<>>}
Words == OPT_OUT_KEYWORDS \cup OPT_IN_KEYWORDS \cup OtherWords

\* The white space around a word.
Pads == {<<>>, <<Char(SPACE, FALSE)>>, <<Char("\t", FALSE), Char(SPACE, FALSE)>>}

Written(left, word, upper, right) == left \o Body(word, upper, FALSE) \o right

KeywordBodies ==
    {Written(left, word, upper, right) :
        left \in Pads, word \in Words, upper \in BOOLEAN, right \in Pads}

\* One inbound message from the known contact waits in the queue.
InitKeywords ==
    /\ InitLimiter /\ InitBroker /\ InitConnected /\ InitStatus /\ InitWebhook
    /\ InitShutdown /\ InitFormat /\ InitFleet
    /\ InitCore
    /\ \E body \in KeywordBodies :
          inbound_queue = <<InboundMessage(1,
              InboundData(1, KnownPhone, UserPhone, body))>>
    /\ iw = [p \in Procs |-> IdleInbound]
    /\ contacts_optout = {}
    /\ inbound_log = <<>>
    /\ created = <<>>

SpecKeywords == InitKeywords /\ [][NextInbound]_vars

\* The handler has made its keyword checks on the body.
Checked(p) == iw[p].pc \in {"optUpdate", "optList", "insert", "notify"}

\* C31: a body is an opt-out exactly when, white space around it and case
\* aside, it is one of the opt-out keywords, and an opt-in exactly when it
\* is one of the opt-in keywords; a body that contains a keyword among other
\* characters is neither, and no body is both.
C31_KeywordsMatchExactly ==
    \A p \in Procs : Checked(p) =>
        LET body == iw[p].msg.data.body
        IN  /\ \A left \in Pads, word \in Words, upper \in BOOLEAN, right \in Pads :
                  body = Written(left, word, upper, right) =>
                      /\ iw[p].isOptOut <=> word \in OPT_OUT_KEYWORDS
                      /\ isOptOutMessage(body) <=> word \in OPT_OUT_KEYWORDS
                      /\ isOptInMessage(body) <=> word \in OPT_IN_KEYWORDS
                      /\ iw[p].isOptIn <=> word \in OPT_IN_KEYWORDS
            /\ ~(isOptOutMessage(body) /\ isOptInMessage(body))

\* An opt-out keyword in upper case with white space around it was taken
\* for an opt-out.
C31_Witness ==
    \E p \in Procs :
        /\ Checked(p)
        /\ iw[p].msg.data.body =
              Written(<<Char("\t", FALSE), Char(SPACE, FALSE)>>,
                      STOP_WORD, TRUE, <<Char(SPACE, FALSE)>>)
        /\ iw[p].isOptOut

\* ------------------------------------------------------------ shutdown

\* The workers run: one row is Pending and due, the other was cancelled;
\* the pre-queue worker is before its last cycle.
InitShutdownRun ==
    /\ InitExt
    /\ InitCredits(MaxBalance)
    /\ InitInbox
    /\ scheduled_messages = [s \in ScheduledIds |->
          IF s = 1 THEN PendingRow ELSE [PendingRow EXCEPT !.status = CANCELLED]]
    /\ drip_contact = [s \in ScheduledIds |-> NoDripContact]
    /\ contacts = [c \in ContactIds |-> ContactOk]
    /\ users = [u \in Users |-> UserActive]
    /\ drip_queue = <<>>
    /\ drip_settled = NoneSettled
    /\ pq = IdleWorker
    /\ mc = [p \in Procs |-> IdleConsumer]
    /\ published = [s \in ScheduledIds |-> 0]
    /\ drip_calls = [s \in ScheduledIds |-> 0]
    /\ cycles = MaxCycles - 1

\* The process is alive until process.exit.
Alive == sd # "exited"

\* The broker delivers to the drip consumer while it is registered.
RunDeliver(p) == Alive /\ consumerTag # NULL /\ connection = "open" /\ McDeliver(p)

\* A handler in flight goes on.
RunHandler(p) ==
    /\ Alive
    /\ \/ McContact(p)
       \/ McUser(p)
       \/ McCredits(p)
       \/ DeductStep(p)
       \/ McDeducted(p)
       \/ McTwilio(p)
       \/ McInsert(p)
       \/ McMarkSent(p)
       \/ McDripSent(p)
       \/ McMarkFailed(p)
       \/ McDripFailed(p)
       \/ McThrow(p)
       \/ McAck(p)

\* The pre-queue worker: a timer tick, and the cycle in flight.
RunCycle(c) == Alive /\ (PqSelect(c) \/ PqPublish(c) \/ PqMark(c))

NextShutdown ==
    \/ Signal
    \/ StopConsumer
    \/ StopOutbound
    \/ StopOthers
    \/ \E p \in Procs : RunDeliver(p) \/ RunHandler(p)
    \/ \E c \in CycleIds : RunCycle(c)

SpecShutdown == InitShutdownRun /\ [][NextShutdown]_vars

\* C32: shutdown stops the pre-queue scheduler before it cancels the
\* consumers, and closes the connection only when the consumers are
\* cancelled and no handler is in flight; no handler acks or nacks, and no
\* pre-queue cycle publishes, on a closed channel.
C32_GracefulShutdown ==
    [][/\ (consumerTag # NULL /\ consumerTag' = NULL) => pq.intervalId = 0
       /\ (connection = "open" /\ connection' = "closed") =>
             /\ pq.intervalId = 0
             /\ consumerTag = NULL
             /\ \A p \in Procs : mc[p].pc = "idle"
       /\ \A p \in Procs :
             (mc[p].pc \in {"ack", "nack"} /\ mc'[p].pc = "idle") =>
                 connection = "open"
       /\ published' # published => connection = "open"]_vars

\* ------------------------------------------------------- phone numbers

MaxDigits == 12

\* Phone numbers as they are written: up to MaxDigits digits, with or
\* without a prefix, a separator inside and a space behind.
SampleDigits == <<"5", "5", "5", "0", "1", "0", "0", "2", "3", "4", "9", "8",
                  "7", "6">>
Prefixes == {<<>>, <<PLUS>>, <<PLUS, "1">>, <<"1">>, <<"(">>, <<"x">>}

Separated(digits, sep) ==
    IF sep /\ Len(digits) > 3
    THEN SubSeq(digits, 1, 3) \o <<"-">> \o SubSeq(digits, 4, Len(digits))
    ELSE digits

PhoneTexts ==
    {prefix \o Separated(SubSeq(SampleDigits, 1, n), sep) \o
        (IF space THEN <<SPACE>> ELSE <<>>) :
        prefix \in Prefixes, n \in 0..MaxDigits, sep \in BOOLEAN,
        space \in BOOLEAN}

InitPhones ==
    /\ InitCore
    /\ InitLimiter /\ InitBroker
    /\ InitConnected /\ InitStatus /\ InitWebhook /\ InitInbound
    /\ InitShutdown /\ InitFleet
    /\ \E text \in PhoneTexts : fp = [phone |-> Str(text), out |-> <<>>]

NextPhones == FormatPhone

SpecPhones == InitPhones /\ [][NextPhones]_vars

\* C33: formatting a formatted phone number changes nothing:
\* formatPhoneNumber(formatPhoneNumber(p)) = formatPhoneNumber(p).
C33_FormatIsIdempotent == Len(fp.out) = 2 => fp.out[2] = fp.out[1]

\* Ten digits with a separator were formatted twice, and the country code
\* was added once.
C33_Witness ==
    /\ Len(fp.out) = 2
    /\ fp.phone = Str(Separated(SubSeq(SampleDigits, 1, 10), TRUE))
    /\ fp.out[1] = Str(<<PLUS, "1">> \o SubSeq(SampleDigits, 1, 10))

\* ----------------------------------------------------------- the fleet

\* One instance runs its pre-queue worker, between two cycles; the rows are
\* Pending and due.
InitFleetRun ==
    /\ InitLimiter /\ InitBroker
    /\ InitConnected /\ InitStatus /\ InitWebhook /\ InitInbound
    /\ InitShutdown /\ InitFormat /\ InitFleet
    /\ InitCredits(MaxBalance)
    /\ InitInbox
    /\ InitDripTables(ContactOk, UserActive)
    /\ \E batchSize \in 1..NumScheduled : pq = SetInterval(StoppedWorker(batchSize))

\* The cycles of the first instance, its status updates succeeding, and the
\* start and the cycles of a second instance.
NextFleet ==
    \/ \E c \in CycleIds : PqSelect(c) \/ PqPublish(c) \/ HappyMark(c)
    \/ PeerStart
    \/ PeerSelect
    \/ PeerPublish
    \/ PeerMark

SpecFleet == InitFleetRun /\ [][NextFleet]_vars

\* The pre-queue scheduler of a worker is running: its interval is set or
\* its start() is in its first cycle.
SchedulerRuns(w) == w.intervalId # 0 \/ w.isRunning

\* C34: each ScheduledMessage is published at most once, and at most one
\* pre-queue scheduler runs among the instances of the app.
C34_OneSchedulerPublishesOnce ==
    /\ \A s \in ScheduledIds : published[s] <= 1
    /\ ~(SchedulerRuns(pq) /\ SchedulerRuns(peer))

\* ------------------------------------------------------ inbox.send refunds

\* The refund rows of the ledger that reference messages row m.
Refunds(m) ==
    {i \in DOMAIN credit_transactions :
        /\ credit_transactions[i].reference_type = "sms_refund"
        /\ credit_transactions[i].reference_id = m}

\* The payload of row m is settled: acked, and no handler has it in hand.
SendSettled(m) ==
    /\ send_acks[m] > 0
    /\ \A p \in Procs : ow[p].pc # "idle" => ow[p].data.messageId # m
    /\ \A i \in DOMAIN send_queue : send_queue[i].messageId # m

\* C35: once the payload of a row with creditCost > 0 is settled and its
\* send has failed, the ledger holds exactly one refund that references the
\* row, however often the payload was delivered; a row whose send succeeded
\* has no refund.
C35_FailedSendRefundedOnce ==
    \A m \in InboxIds :
        /\ (SendSettled(m) /\ messages[m].status = "3"
                /\ SendPayload(m).creditCost > 0) =>
              Cardinality(Refunds(m)) = 1
        /\ messages[m].status = "1" => Refunds(m) = {}

\* ------------------------------------------------- the dispatcher restarts

\* The pre-queue scheduler runs and the dispatcher is down: no consumer is
\* registered on drip.messages.
InitExpiry ==
    /\ InitLimiter /\ InitBroker
    /\ InitConnected /\ InitStatus /\ InitWebhook /\ InitInbound
    /\ InitFormat /\ InitFleet
    /\ consumerTag = NULL
    /\ sd = "running"
    /\ InitCredits(MaxBalance)
    /\ InitInbox
    /\ InitDrip(ContactOk, UserActive)

\* The pre-queue cycles, the expiry of waiting messages, the start of the
\* dispatcher and its handlers.
NextExpiry ==
    \/ \E c \in CycleIds : RunCycle(c)
    \/ DripExpire
    \/ StartConsumer
    \/ \E p \in Procs : RunDeliver(p) \/ RunHandler(p)

SpecExpiry == InitExpiry /\ [][NextExpiry]_vars

\* The broker or a handler holds the payload of scheduled message s.
InBrokerOrHandler(s) ==
    \/ \E i \in DOMAIN drip_queue : drip_queue[i].scheduledMessageId = s
    \/ \E p \in Procs : mc[p].pc # "idle" /\ mc[p].msgData.scheduledMessageId = s

\* C36: a ScheduledMessage that is Queued still has its payload in
\* drip.messages or in a handler, so that a dispatcher that runs takes it to
\* Sent or Failed, also after the dispatcher was down for longer than the
\* TTL of the queue.
C36_QueuedIsNeverStranded ==
    \A s \in ScheduledIds :
        scheduled_messages[s].status = QUEUED => InBrokerOrHandler(s)

\* ------------------------------------------ the links to the broker

\* The workers run on the first link; it is lost and made again, and the
\* process closes it.
InitRecover == InitExt /\ InitCore

NextRecover ==
    \/ \E q \in LinkQueues : LinkDeliver(q)
    \/ LinkAck
    \/ \E n \in LinkIds, event \in {"error", "close"} : LinkEvent(n, event)
    \/ \E i \in 1..(MaxDrops + 1) : LinkTimer(i)
    \/ LinkClose

SpecRecover == InitRecover /\ [][NextRecover]_vars

\* The module refers to an open link that is not the first one.
Reestablished == current > 1 /\ links[current] = "open"

\* C37: once the connection is re-established every consumer registered
\* before the loss is on a channel that delivers, and no ack is accepted by
\* a channel other than the one that delivered the message.
C37_ConsumersRecover ==
    /\ Reestablished => \A q \in LinkQueues : Receives(q)
    /\ \A a \in link_acks : a.channel = a.delivery

\* The links that are open at the broker.
OpenLinks == {n \in LinkIds : links[n] = "open"}

\* C38: whatever events a connection emits and however connect() fails in
\* a reconnect timer, at most one reconnect timer is pending and at most one
\* connection is open; a graceful close() schedules no reconnect.
C38_OneTimerOneConnection ==
    /\ [](Len(reconnect_timers) <= 1 /\ Cardinality(OpenLinks) <= 1)
    /\ [][(current # 0 /\ current' = 0) =>
              reconnect_timers' = reconnect_timers]_vars

\* ---------------------------------------- status callbacks out of order

TerminalStates == {"delivered", "read", "failed", "undelivered"}
EarlierStates == {"queued", "sending", "sent"}

\* C39: no step takes a messages row from a terminal delivery state back to
\* an earlier one, in whatever order the callbacks are processed.
C39_TerminalIsFinal ==
    [][\A m \in InboxIds :
          messages[m].delivery_status \in TerminalStates =>
              messages'[m].delivery_status \notin EarlierStates]_vars

\* ------------------------------------ inboundMessageWorker: new contacts

\* Two messages of one sender that has no contact row wait in the queue.
InitCreateRun ==
    /\ InitLimiter /\ InitBroker /\ InitConnected /\ InitStatus /\ InitWebhook
    /\ InitShutdown /\ InitFormat /\ InitFleet
    /\ InitCore
    /\ \E from \in UnknownPhones, to \in ToNumbers :
          inbound_queue =
              [i \in 1..2 |-> InboundMessage(i,
                  InboundData(i, from, to, Keyword(HELLO_WORD)))]
    /\ iw = [p \in Procs |-> IdleInbound]
    /\ contacts_optout = {}
    /\ inbound_log = <<>>
    /\ created = <<>>

NextCreate ==
    \E p \in Procs :
        \/ InboundReceive(p)
        \/ InboundFindUser(p)
        \/ InboundSelectContact(p)
        \/ InboundCreateContact(p)
        \/ InboundInsert(p)
        \/ InboundNotify(p)

SpecCreate == InitCreateRun /\ [][NextCreate]_vars

\* The messages rows saveInboundMessage has inserted.
InboundRows == {r \in DOMAIN messages : messages[r].delivery_status = "received"}

\* Both messages of the queue have been handled with their user found.
BothHandled ==
    /\ Len(inbound_log) = 2
    /\ \A k \in 1..2 : findUserByNumber(inbound_log[k].data.to) # NULL

\* C40: the two messages of the one unknown sender, in whatever way their
\* handlers interleave, leave at most one contact row for the user and the
\* phone, and once both are handled each has its messages row and both rows
\* reference that contact.
C40_OneContactPerSender ==
    /\ \A i, j \in DOMAIN created : created[i] = created[j] => i = j
    /\ BothHandled =>
          \E c \in {CreatedId(i) : i \in DOMAIN created} :
              \A k \in 1..2 :
                  \E r \in InboundRows : /\ messages[r].msg_id = k
                                         /\ messages[r].contact_id = c

====
